---- MODULE Spec2Model ----
(***************************************************************************)
(* A model of mack, the Markdown to Slack BlockKit converter: the          *)
(* validation utilities (src/validation.ts), the block builders            *)
(* (src/slack.ts), the error classes (src/errors.ts) and the top-level     *)
(* transform markdownToBlocks with its parser.                             *)
(*                                                                         *)
(* A JavaScript value is a record tagged by t; a string's content is the   *)
(* sequence of its UTF-16 code units, each written as a one-character      *)
(* string or, for the units outside ASCII, by its four hex digits.         *)
(***************************************************************************)
EXTENDS Integers, Sequences, FiniteSets, Bags, TLC

VARIABLES
    pc,       \* where the call is: "start", "done", or a position inside markdownToBlocks
    call,     \* the last API call made: its function name and arguments
    ret,      \* the outcome of the last completed call: a return value or a throw
    body,     \* markdownToBlocks: the markdown text, until the tokenizer has taken it
    doc,      \* markdownToBlocks: the top-level tokens the tokenizer returned
    tokens,   \* markdownToBlocks: the top-level tokens not yet parsed
    nesting,  \* markdownToBlocks: the levels of styled nodes the tokenizer has nested
    blocks,   \* markdownToBlocks: the blocks emitted so far
    acc,      \* markdownToBlocks: the open Accumulator's pending text
    stack,    \* markdownToBlocks: the frames of the recursive inline rendering
    sched     \* the other calls of markdownToBlocks in progress, and the calls completed

vars == <<pc, call, ret, body, doc, tokens, nesting, blocks, acc, stack, sched>>

(***************************************************************************)
(* Bounds of the model.                                                    *)
(***************************************************************************)
\* How far beyond a ceiling the lengths of the inputs go.
MaxOver == 2
\* The longest run of plain code units put in front of a pattern.
MaxPad == 1
\* The length up to which every string over SmallUnits is an input.
MaxSmallLen == 3
\* The most levels of styled nodes the tokenizer nests.
MaxNesting == 60

(***************************************************************************)
(* JavaScript values.                                                      *)
(***************************************************************************)
Undefined == [t |-> "undefined"]
Null == [t |-> "null"]
Num(n) == [t |-> "number", num |-> n]
Str(s) == [t |-> "string", str |-> s]
Arr(a) == [t |-> "array", arr |-> a]
Obj(o) == [t |-> "object", obj |-> o]

\* new Array(n).fill('a').join(''): a string of n code units, written by its
\* length where it is an argument, and the value an argument stands for
Filled(n) == [t |-> "filled", unit |-> "a", count |-> n]
ValueOf(arg) ==
    IF arg.t = "filled" THEN Str([i \in 1..arg.count |-> arg.unit]) ELSE arg

\* typeof v
TypeOf(v) ==
    CASE v.t = "null" -> "object"
      [] v.t = "array" -> "object"
      [] OTHER -> v.t

\* Array.isArray(v)
IsArray(v) == v.t = "array"

\* !v
Falsy(v) ==
    \/ v.t \in {"undefined", "null"}
    \/ v.t = "string" /\ v.str = <<>>
    \/ v.t = "number" /\ v.num = 0

\* o.name, for an object o: undefined when the property is absent
Get(o, name) ==
    IF o.t = "object" /\ name \in DOMAIN o.obj THEN o.obj[name] ELSE Undefined

(***************************************************************************)
(* Strings: UTF-16 code units.                                             *)
(***************************************************************************)
AsciiCode ==
    "a" :> 97 @@ "b" :> 98 @@ "c" :> 99 @@ "d" :> 100 @@ "e" :> 101 @@
    "f" :> 102 @@ "g" :> 103 @@ "h" :> 104 @@ "i" :> 105 @@ "l" :> 108 @@
    "m" :> 109 @@ "n" :> 110 @@ "p" :> 112 @@ "r" :> 114 @@ "s" :> 115 @@
    "t" :> 116 @@ "v" :> 118 @@ "w" :> 119 @@ "x" :> 120 @@ "_" :> 95 @@
    "H" :> 72 @@ "T" :> 84 @@ "P" :> 80 @@ "0" :> 48 @@
    "1" :> 49 @@ "2" :> 50 @@ "3" :> 51 @@ "4" :> 52 @@ "5" :> 53 @@
    "6" :> 54 @@ "7" :> 55 @@ "8" :> 56 @@ "9" :> 57 @@ "[" :> 91 @@ "]" :> 93 @@
    ":" :> 58 @@ "/" :> 47 @@ "." :> 46 @@ "-" :> 45 @@ "%" :> 37 @@
    " " :> 32 @@ "<" :> 60 @@ ">" :> 62 @@ "&" :> 38 @@ "?" :> 63 @@
    "#" :> 35 @@ "\"" :> 34 @@ "'" :> 39 @@ ";" :> 59 @@ "*" :> 42 @@
    "~" :> 126 @@ "|" :> 124 @@ "\n" :> 10

\* The code units outside ASCII, and the backtick, named by their hex digits.
HexCode ==
    "0060" :> 96 @@ "2022" :> 8226 @@
    "D7FF" :> 55295 @@ "D800" :> 55296 @@ "D83D" :> 55357 @@
    "DBFF" :> 56319 @@ "DC00" :> 56320 @@ "DE00" :> 56832 @@
    "DFFF" :> 57343 @@ "E000" :> 57344

\* text.charCodeAt(i), for 0 <= i < text.length
CharCodeAt(text, i) ==
    LET u == text[i + 1]
    IN  IF u \in DOMAIN HexCode THEN HexCode[u] ELSE AsciiCode[u]

\* text.slice(0, n), for n >= 0
SliceTo(text, n) == SubSeq(text, 1, IF n < Len(text) THEN n ELSE Len(text))

\* text.slice(0, -1)
DropLast(text) == SubSeq(text, 1, Len(text) - 1)

\* text.startsWith(prefix)
StartsWith(text, prefix) ==
    /\ Len(text) >= Len(prefix)
    /\ SubSeq(text, 1, Len(prefix)) = prefix

(***************************************************************************)
(* src/errors.ts                                                           *)
(***************************************************************************)
\* A message is the sequence of its words; a number is written by ToString.
ValidationError(message) ==
    [name |-> "ValidationError", code |-> "VALIDATION_ERROR", message |-> message]

ParseError(message) ==
    [name |-> "ParseError", code |-> "PARSE_ERROR", message |-> message]

BlockLimitError(blockCount, maxBlocks) ==
    [name |-> "BlockLimitError", code |-> "BLOCK_LIMIT_EXCEEDED",
     message |-> <<"Block", "limit", "exceeded:", ToString(blockCount), "blocks",
                   "exceeds", "maximum", "of", ToString(maxBlocks)>>]

SecurityError(message) ==
    [name |-> "SecurityError", code |-> "SECURITY_ERROR", message |-> message]

\* The outcome of a call.
Return(v) == [st |-> "return", val |-> v]
Throw(e) == [st |-> "throw", err |-> e]
NoCall == [st |-> "none"]

Returned(r) == r.st = "return"
Threw(r) == r.st = "throw"

\* Whether the words of phrase occur, in a row, in message.
Mentions(message, phrase) ==
    \E i \in 1..(Len(message) - Len(phrase) + 1) :
        SubSeq(message, i, i + Len(phrase) - 1) = phrase

(***************************************************************************)
(* src/validation.ts                                                       *)
(***************************************************************************)
MAX_INPUT_SIZE == 1000000
MAX_RECURSION_DEPTH == 50
BLOCK_LIMIT == 50

\* validateInput with the size compared by >= instead of >
validateInput_SizeOffByOne(input) ==
    IF input.t \in {"null", "undefined"}
    THEN Throw(ValidationError(<<"Input", "cannot", "be", "null", "or", "undefined">>))
    ELSE IF TypeOf(input) # "string"
    THEN Throw(ValidationError(<<"Expected", "string", "input,", "received", TypeOf(input)>>))
    ELSE IF Len(input.str) = 0
    THEN Throw(ValidationError(<<"Input", "cannot", "be", "empty">>))
    ELSE IF Len(input.str) >= MAX_INPUT_SIZE
    THEN Throw(ValidationError(<<"Input", "size", ToString(Len(input.str)), "exceeds",
                                 "maximum", "of", ToString(MAX_INPUT_SIZE), "bytes">>))
    ELSE Return(Undefined)

validateInput(input) ==
    IF input.t \in {"null", "undefined"}
    THEN Throw(ValidationError(<<"Input", "cannot", "be", "null", "or", "undefined">>))
    ELSE IF TypeOf(input) # "string"
    THEN Throw(ValidationError(<<"Expected", "string", "input,", "received", TypeOf(input)>>))
    ELSE IF Len(input.str) = 0
    THEN Throw(ValidationError(<<"Input", "cannot", "be", "empty">>))
    ELSE IF Len(input.str) > MAX_INPUT_SIZE
    THEN Throw(ValidationError(<<"Input", "size", ToString(Len(input.str)), "exceeds",
                                 "maximum", "of", ToString(MAX_INPUT_SIZE), "bytes">>))
    ELSE Return(Undefined)

\* validateBlockCount with one block too many let through
validateBlockCount_OneTooMany(blockCount, maxBlocks) ==
    IF blockCount > maxBlocks + 1
    THEN Throw(ValidationError(<<"Block", "count", ToString(blockCount), "exceeds",
                                 "maximum", "of", ToString(maxBlocks), "blocks">>))
    ELSE Return(Undefined)

\* validateBlockCount throwing the BlockLimitError of src/errors.ts
validateBlockCount_LimitError(blockCount, maxBlocks) ==
    IF blockCount > maxBlocks
    THEN Throw(BlockLimitError(blockCount, maxBlocks))
    ELSE Return(Undefined)

\* validateBlockCount reporting nothing: the blocks would be returned as
\* they are
validateBlockCount_Silent(blockCount, maxBlocks) == Return(Undefined)

validateBlockCount(blockCount, maxBlocks) ==
    IF blockCount > maxBlocks
    THEN Throw(ValidationError(<<"Block", "count", ToString(blockCount), "exceeds",
                                 "maximum", "of", ToString(maxBlocks), "blocks">>))
    ELSE Return(Undefined)

\* validateRecursionDepth with the depth compared by >= instead of >
validateRecursionDepth_OffByOne(depth) ==
    IF depth >= MAX_RECURSION_DEPTH
    THEN Throw(ValidationError(<<"Recursion", "depth", ToString(depth), "exceeds",
                                 "maximum", "of", ToString(MAX_RECURSION_DEPTH)>>))
    ELSE Return(Undefined)

validateRecursionDepth(depth) ==
    IF depth > MAX_RECURSION_DEPTH
    THEN Throw(ValidationError(<<"Recursion", "depth", ToString(depth), "exceeds",
                                 "maximum", "of", ToString(MAX_RECURSION_DEPTH)>>))
    ELSE Return(Undefined)

\* safeTruncate without the check of the last code unit
\* safeTruncate without the early return: a text that fits is also cut back
\* when it ends in a high surrogate
safeTruncate_TrimsAlways(text, maxLength) ==
    LET truncated == SliceTo(text, maxLength)
        lastIsHigh ==
            /\ Len(truncated) > 0
            /\ CharCodeAt(truncated, Len(truncated) - 1) >= 55296
            /\ CharCodeAt(truncated, Len(truncated) - 1) <= 56319
    IN  IF lastIsHigh THEN DropLast(truncated) ELSE truncated

safeTruncate_NoSurrogateCheck(text, maxLength) ==
    IF Len(text) <= maxLength THEN text ELSE SliceTo(text, maxLength)

\* The string safeTruncate(text, maxLength), for maxLength >= 0. The code unit
\* before an empty string is NaN, which is in no range.
safeTruncate(text, maxLength) ==
    IF Len(text) <= maxLength
    THEN text
    ELSE LET truncated == SliceTo(text, maxLength)
             lastIsHigh ==
                 /\ Len(truncated) > 0
                 /\ CharCodeAt(truncated, Len(truncated) - 1) >= 55296
                 /\ CharCodeAt(truncated, Len(truncated) - 1) <= 56319
         IN  IF lastIsHigh THEN DropLast(truncated) ELSE truncated

\* The character class of httpRegex: [a-zA-Z0-9-._~:/?#[\]@!$&'()*+,;=]
UrlCharCodes ==
    (97..122) \cup (65..90) \cup (48..57) \cup
    {45, 46, 95, 126, 58, 47, 63, 35, 91, 93, 64, 33, 36, 38, 39, 40, 41, 42, 43, 44, 59, 61}

HTTP_PREFIX == <<"h", "t", "t", "p", ":", "/", "/">>
HTTPS_PREFIX == <<"h", "t", "t", "p", "s", ":", "/", "/">>
DATA_PREFIX == <<"d", "a", "t", "a", ":">>
DATA_IMAGE_PREFIX == <<"d", "a", "t", "a", ":", "i", "m", "a", "g", "e", "/">>

\* httpRegex.test(url): /^https?:\/\/[...]+$/
httpRegexTest(url) ==
    \E prefix \in {HTTP_PREFIX, HTTPS_PREFIX} :
        /\ StartsWith(url, prefix)
        /\ Len(url) > Len(prefix)
        /\ \A i \in Len(prefix)..(Len(url) - 1) : CharCodeAt(url, i) \in UrlCharCodes

\* validateUrl that takes every data: URL, whatever its media type
validateUrl_AnyData(url) ==
    IF Falsy(url) \/ TypeOf(url) # "string" \/ Len(url.str) = 0
    THEN FALSE
    ELSE IF StartsWith(url.str, DATA_PREFIX)
    THEN TRUE
    ELSE IF StartsWith(url.str, <<"/">>) \/ StartsWith(url.str, <<".">>)
    THEN TRUE
    ELSE httpRegexTest(url.str)

\* validateUrl with a regex that lets nothing follow the scheme (* for +)
validateUrl_BareScheme(url) ==
    IF Falsy(url) \/ TypeOf(url) # "string" \/ Len(url.str) = 0
    THEN FALSE
    ELSE IF StartsWith(url.str, DATA_PREFIX)
    THEN StartsWith(url.str, DATA_IMAGE_PREFIX)
    ELSE IF StartsWith(url.str, <<"/">>) \/ StartsWith(url.str, <<".">>)
    THEN TRUE
    ELSE httpRegexTest(url.str) \/ url.str \in {HTTP_PREFIX, HTTPS_PREFIX}

\* validateUrl(url): a boolean
validateUrl(url) ==
    IF Falsy(url) \/ TypeOf(url) # "string" \/ Len(url.str) = 0
    THEN FALSE
    ELSE IF StartsWith(url.str, DATA_PREFIX)
    THEN StartsWith(url.str, DATA_IMAGE_PREFIX)
    ELSE IF StartsWith(url.str, <<"/">>) \/ StartsWith(url.str, <<".">>)
    THEN TRUE
    ELSE httpRegexTest(url.str)

(***************************************************************************)
(* src/slack.ts: the block builders                                        *)
(***************************************************************************)
MAX_TEXT_LENGTH == 3000
MAX_HEADER_LENGTH == 150
MAX_IMAGE_TITLE_LENGTH == 2000
MAX_IMAGE_ALT_TEXT_LENGTH == 2000
MAX_VIDEO_TITLE_LENGTH == 200
MAX_VIDEO_DESCRIPTION_LENGTH == 200
MAX_VIDEO_AUTHOR_NAME_LENGTH == 50

section(text) ==
    IF TypeOf(text) # "string"
    THEN Throw(ValidationError(<<"Section", "text", "must", "be", "a", "string,",
                                 "received", TypeOf(text)>>))
    ELSE Return([type |-> "section",
                 text |-> [type |-> "mrkdwn",
                           text |-> Str(safeTruncate(text.str, MAX_TEXT_LENGTH))]])

divider == Return([type |-> "divider"])

\* header without the truncation
header_NoTruncate(text) ==
    IF TypeOf(text) # "string"
    THEN Throw(ValidationError(<<"Header", "text", "must", "be", "a", "string,",
                                 "received", TypeOf(text)>>))
    ELSE Return([type |-> "header", text |-> [type |-> "plain_text", text |-> text]])

header(text) ==
    IF TypeOf(text) # "string"
    THEN Throw(ValidationError(<<"Header", "text", "must", "be", "a", "string,",
                                 "received", TypeOf(text)>>))
    ELSE Return([type |-> "header",
                 text |-> [type |-> "plain_text",
                           text |-> Str(safeTruncate(text.str, MAX_HEADER_LENGTH))]])

\* isAbsoluteUrl without the data: scheme
isAbsoluteUrl_NoData(url) ==
    \/ StartsWith(url.str, HTTP_PREFIX)
    \/ StartsWith(url.str, HTTPS_PREFIX)

\* isAbsoluteUrl, of image and of video's isValidUrl, for a string url
isAbsoluteUrl(url) ==
    \/ StartsWith(url.str, HTTP_PREFIX)
    \/ StartsWith(url.str, HTTPS_PREFIX)
    \/ StartsWith(url.str, DATA_PREFIX)

\* image(url, altText, title), for a title that is a string or undefined
image(url, altText, title) ==
    IF TypeOf(url) # "string" \/ Falsy(url)
    THEN Throw(ValidationError(<<"Image", "URL", "must", "be", "a", "non-empty", "string">>))
    ELSE IF isAbsoluteUrl(url) /\ ~validateUrl(url)
    THEN Throw(ValidationError(<<"Invalid", "image", "URL:">> \o url.str))
    ELSE IF TypeOf(altText) # "string"
    THEN Throw(ValidationError(<<"Image", "alt", "text", "must", "be", "a", "string,",
                                 "received", TypeOf(altText)>>))
    ELSE Return([type |-> "image",
                 image_url |-> url,
                 alt_text |-> Str(safeTruncate(altText.str, MAX_IMAGE_ALT_TEXT_LENGTH)),
                 title |-> IF ~Falsy(title)
                           THEN [type |-> "plain_text",
                                 text |-> Str(safeTruncate(title.str, MAX_IMAGE_TITLE_LENGTH))]
                           ELSE Undefined])

\* isValidUrl, local to video, for a string url
isValidUrl(url) == ~isAbsoluteUrl(url) \/ validateUrl(url)

\* video(options): options is a record of JavaScript values, with undefined for
\* an option that is not given; the optional ones are strings when given
video(options) ==
    IF TypeOf(options.altText) # "string" \/ Falsy(options.altText)
    THEN Throw(ValidationError(<<"Video", "alt", "text", "must", "be", "a", "non-empty", "string">>))
    ELSE IF TypeOf(options.title) # "string" \/ Falsy(options.title)
    THEN Throw(ValidationError(<<"Video", "title", "must", "be", "a", "non-empty", "string">>))
    ELSE IF TypeOf(options.thumbnailUrl) # "string" \/ Falsy(options.thumbnailUrl)
    THEN Throw(ValidationError(<<"Video", "thumbnail", "URL", "must", "be", "a", "non-empty", "string">>))
    ELSE IF TypeOf(options.videoUrl) # "string" \/ Falsy(options.videoUrl)
    THEN Throw(ValidationError(<<"Video", "URL", "must", "be", "a", "non-empty", "string">>))
    ELSE IF ~isValidUrl(options.thumbnailUrl)
    THEN Throw(ValidationError(<<"Invalid", "thumbnail", "URL:">> \o options.thumbnailUrl.str))
    ELSE IF ~isValidUrl(options.videoUrl)
    THEN Throw(ValidationError(<<"Invalid", "video", "URL:">> \o options.videoUrl.str))
    ELSE IF ~Falsy(options.titleUrl) /\ ~isValidUrl(options.titleUrl)
    THEN Throw(ValidationError(<<"Invalid", "title", "URL:">> \o options.titleUrl.str))
    ELSE IF ~Falsy(options.providerIconUrl) /\ ~isValidUrl(options.providerIconUrl)
    THEN Throw(ValidationError(<<"Invalid", "provider", "icon", "URL:">>
                                 \o options.providerIconUrl.str))
    ELSE Return([type |-> "video",
                 alt_text |-> Str(safeTruncate(options.altText.str, MAX_IMAGE_ALT_TEXT_LENGTH)),
                 title |-> [type |-> "plain_text",
                            text |-> Str(safeTruncate(options.title.str, MAX_VIDEO_TITLE_LENGTH)),
                            emoji |-> TRUE],
                 thumbnail_url |-> options.thumbnailUrl,
                 video_url |-> options.videoUrl,
                 author_name |->
                     IF ~Falsy(options.authorName)
                     THEN Str(safeTruncate(options.authorName.str, MAX_VIDEO_AUTHOR_NAME_LENGTH))
                     ELSE Undefined,
                 description |->
                     IF ~Falsy(options.description)
                     THEN [type |-> "plain_text",
                           text |-> Str(safeTruncate(options.description.str,
                                                     MAX_VIDEO_DESCRIPTION_LENGTH)),
                           emoji |-> TRUE]
                     ELSE Undefined,
                 provider_icon_url |-> options.providerIconUrl,
                 provider_name |-> options.providerName,
                 title_url |-> options.titleUrl])

file(externalId) ==
    IF TypeOf(externalId) # "string" \/ Falsy(externalId)
    THEN Throw(ValidationError(<<"File", "external_id", "must", "be", "a", "non-empty", "string">>))
    ELSE Return([type |-> "file", external_id |-> externalId, source |-> "remote"])

richTextList(items, style, indent) ==
    IF ~IsArray(items) \/ Len(items.arr) = 0
    THEN Throw(ValidationError(<<"Rich", "text", "list", "must", "have", "at", "least",
                                 "one", "item">>))
    ELSE Return([type |-> "rich_text",
                 elements |-> <<[type |-> "rich_text_list", style |-> style,
                                 indent |-> indent, elements |-> items]>>])

richTextCode(code) ==
    IF TypeOf(code) # "string"
    THEN Throw(ValidationError(<<"Code", "text", "must", "be", "a", "string,",
                                 "received", TypeOf(code)>>))
    ELSE Return([type |-> "rich_text",
                 elements |-> <<[type |-> "rich_text_preformatted",
                                 elements |-> <<[type |-> "text", text |-> code]>>]>>])

\* A quote builder that takes an array without elements
richTextQuote_AcceptsEmpty(elements) ==
    IF ~IsArray(elements)
    THEN Throw(ValidationError(<<"Rich", "text", "quote", "must", "have", "at", "least",
                                 "one", "element">>))
    ELSE Return([type |-> "rich_text",
                 elements |-> <<[type |-> "rich_text_quote", elements |-> elements]>>])

richTextQuote(elements) ==
    IF ~IsArray(elements) \/ Len(elements.arr) = 0
    THEN Throw(ValidationError(<<"Rich", "text", "quote", "must", "have", "at", "least",
                                 "one", "element">>))
    ELSE Return([type |-> "rich_text",
                 elements |-> <<[type |-> "rich_text_quote", elements |-> elements]>>])

MAX_TABLE_ROWS == 100
MAX_TABLE_CELLS_PER_ROW == 20
MAX_COLUMN_SETTINGS == 20

RAW_TEXT == <<"r", "a", "w", "_", "t", "e", "x", "t">>
RICH_TEXT == <<"r", "i", "c", "h", "_", "t", "e", "x", "t">>
ALIGN_LEFT == <<"l", "e", "f", "t">>
ALIGN_CENTER == <<"c", "e", "n", "t", "e", "r">>
ALIGN_RIGHT == <<"r", "i", "g", "h", "t">>

\* The words "at row i, column j" of a cell's error message.
CellAt(i, j) == <<"Table", "cell", "at", "row", ToString(i) \o ",", "column", ToString(j)>>

\* cellCheck without the check of a raw cell's text
cellCheck_NoTextCheck(cell, i, j) ==
    IF Falsy(cell) \/ TypeOf(cell) # "object"
    THEN Throw(ValidationError(CellAt(i, j) \o <<"must", "be", "an", "object">>))
    ELSE IF Get(cell, "type") # Str(RAW_TEXT) /\ Get(cell, "type") # Str(RICH_TEXT)
    THEN Throw(ValidationError(CellAt(i, j) \o
             <<"must", "have", "type", "'raw_text'", "or", "'rich_text'">>))
    ELSE IF Get(cell, "type") = Str(RICH_TEXT) /\ ~IsArray(Get(cell, "elements"))
    THEN Throw(ValidationError(CellAt(i, j) \o
             <<"with", "type", "'rich_text'", "must", "have", "an", "elements", "array">>))
    ELSE NoCall

\* The body of table's loop over the cells, for the cell at row i, column j
\* (from 0): the error it throws, or NoCall when the cell passes.
cellCheck(cell, i, j) ==
    IF Falsy(cell) \/ TypeOf(cell) # "object"
    THEN Throw(ValidationError(CellAt(i, j) \o <<"must", "be", "an", "object">>))
    ELSE IF Get(cell, "type") # Str(RAW_TEXT) /\ Get(cell, "type") # Str(RICH_TEXT)
    THEN Throw(ValidationError(CellAt(i, j) \o
             <<"must", "have", "type", "'raw_text'", "or", "'rich_text'">>))
    ELSE IF Get(cell, "type") = Str(RAW_TEXT) /\ TypeOf(Get(cell, "text")) # "string"
    THEN Throw(ValidationError(CellAt(i, j) \o
             <<"with", "type", "'raw_text'", "must", "have", "a", "text", "property">>))
    ELSE IF Get(cell, "type") = Str(RICH_TEXT) /\ ~IsArray(Get(cell, "elements"))
    THEN Throw(ValidationError(CellAt(i, j) \o
             <<"with", "type", "'rich_text'", "must", "have", "an", "elements", "array">>))
    ELSE NoCall

\* A loop over the rows that checks the cells of a row before their number
rowCheck_CellsFirst(row, i) ==
    IF ~IsArray(row)
    THEN Throw(ValidationError(<<"Table", "row", ToString(i), "must", "be", "an", "array">>))
    ELSE LET bad == {j \in 1..Len(row.arr) : Threw(cellCheck(row.arr[j], i, j - 1))}
         IN  IF bad # {}
             THEN LET j == CHOOSE k \in bad : \A m \in bad : k <= m
                  IN  cellCheck(row.arr[j], i, j - 1)
             ELSE IF Len(row.arr) > MAX_TABLE_CELLS_PER_ROW
             THEN Throw(ValidationError(<<"Table", "row", ToString(i), "cannot", "have", "more",
                                          "than", ToString(MAX_TABLE_CELLS_PER_ROW), "cells">>))
             ELSE NoCall

\* The body of table's loop over the rows, for row i (from 0): the first error
\* it throws, or NoCall when the row passes.
rowCheck(row, i) ==
    IF ~IsArray(row)
    THEN Throw(ValidationError(<<"Table", "row", ToString(i), "must", "be", "an", "array">>))
    ELSE IF Len(row.arr) > MAX_TABLE_CELLS_PER_ROW
    THEN Throw(ValidationError(<<"Table", "row", ToString(i), "cannot", "have", "more",
                                 "than", ToString(MAX_TABLE_CELLS_PER_ROW), "cells">>))
    ELSE LET bad == {j \in 1..Len(row.arr) : Threw(cellCheck(row.arr[j], i, j - 1))}
         IN  IF bad = {}
             THEN NoCall
             ELSE LET j == CHOOSE k \in bad : \A m \in bad : k <= m
                  IN  cellCheck(row.arr[j], i, j - 1)

\* table's check of one column setting: whether it throws
settingCheck(setting) ==
    /\ ~Falsy(setting)
    /\ ~Falsy(Get(setting, "align"))
    /\ Get(setting, "align") \notin {Str(ALIGN_LEFT), Str(ALIGN_CENTER), Str(ALIGN_RIGHT)}

\* columnSettingsCheck without the check of the number of settings
columnSettingsCheck_NoCount(columnSettings) ==
    IF ~IsArray(columnSettings)
    THEN Throw(ValidationError(<<"Column", "settings", "must", "be", "an", "array">>))
    ELSE IF \E k \in 1..Len(columnSettings.arr) : settingCheck(columnSettings.arr[k])
    THEN Throw(ValidationError(<<"Column", "alignment", "must", "be", "left,",
                                 "center,", "or", "right">>))
    ELSE NoCall

\* table's validation of columnSettings, entered when columnSettings is truthy
columnSettingsCheck(columnSettings) ==
    IF ~IsArray(columnSettings)
    THEN Throw(ValidationError(<<"Column", "settings", "must", "be", "an", "array">>))
    ELSE IF Len(columnSettings.arr) > MAX_COLUMN_SETTINGS
    THEN Throw(ValidationError(<<"Cannot", "have", "more", "than",
                                 ToString(MAX_COLUMN_SETTINGS), "column", "settings">>))
    ELSE IF \E k \in 1..Len(columnSettings.arr) : settingCheck(columnSettings.arr[k])
    THEN Throw(ValidationError(<<"Column", "alignment", "must", "be", "left,",
                                 "center,", "or", "right">>))
    ELSE NoCall

\* table without the check for at least one row
table_AcceptsNoRows(rows, columnSettings) ==
    IF ~IsArray(rows)
    THEN Throw(ValidationError(<<"Table", "rows", "must", "be", "an", "array">>))
    ELSE IF Len(rows.arr) > MAX_TABLE_ROWS
    THEN Throw(ValidationError(<<"Table", "cannot", "have", "more", "than",
                                 ToString(MAX_TABLE_ROWS), "rows">>))
    ELSE LET bad == {i \in 1..Len(rows.arr) : Threw(rowCheck(rows.arr[i], i - 1))}
         IN  IF bad # {}
             THEN LET i == CHOOSE k \in bad : \A m \in bad : k <= m
                  IN  rowCheck(rows.arr[i], i - 1)
             ELSE IF ~Falsy(columnSettings) /\ Threw(columnSettingsCheck(columnSettings))
             THEN columnSettingsCheck(columnSettings)
             ELSE Return([type |-> "table", rows |-> rows,
                          column_settings |-> columnSettings])

table(rows, columnSettings) ==
    IF ~IsArray(rows)
    THEN Throw(ValidationError(<<"Table", "rows", "must", "be", "an", "array">>))
    ELSE IF Len(rows.arr) = 0
    THEN Throw(ValidationError(<<"Table", "must", "have", "at", "least", "one", "row">>))
    ELSE IF Len(rows.arr) > MAX_TABLE_ROWS
    THEN Throw(ValidationError(<<"Table", "cannot", "have", "more", "than",
                                 ToString(MAX_TABLE_ROWS), "rows">>))
    ELSE LET bad == {i \in 1..Len(rows.arr) : Threw(rowCheck(rows.arr[i], i - 1))}
         IN  IF bad # {}
             THEN LET i == CHOOSE k \in bad : \A m \in bad : k <= m
                  IN  rowCheck(rows.arr[i], i - 1)
             ELSE IF ~Falsy(columnSettings) /\ Threw(columnSettingsCheck(columnSettings))
             THEN columnSettingsCheck(columnSettings)
             ELSE Return([type |-> "table", rows |-> rows,
                          column_settings |-> columnSettings])

(***************************************************************************)
(* The inputs of the calls.                                                *)
(***************************************************************************)
\* The string of n code units that starts with pad times "a" and goes on
\* repeating the code units of pat.
Pattern(pad, pat, n) ==
    [i \in 1..n |-> IF i <= pad THEN "a" ELSE pat[((i - pad - 1) % Len(pat)) + 1]]

\* One BMP character; an emoji (a surrogate pair); the pairs at the ends of
\* the surrogate ranges; lone surrogates; the code units next to the ranges.
Patterns ==
    { <<"a">>, <<"D83D", "DE00">>, <<"D800", "DC00">>, <<"DBFF", "DFFF">>,
      <<"D83D">>, <<"DE00">>, <<"D7FF">>, <<"E000">>, <<"D83D", "D83D", "DE00">> }

LengthsNear(ceiling) == {0, 1} \cup ((ceiling - 1)..(ceiling + MaxOver))

TextsNear(ceiling) ==
    { Pattern(pad, pat, n) : pad \in 0..MaxPad, pat \in Patterns, n \in LengthsNear(ceiling) }

\* '😀'.repeat(2000), of the truncation test
EmojiRun == Pattern(0, <<"D83D", "DE00">>, 2 * 2000)

SmallUnits == {"a", "D83D", "DE00"}

SmallTexts == UNION { [1..n -> SmallUnits] : n \in 0..MaxSmallLen }

\* Values that are not strings.
NonStrings == { Undefined, Null, Num(123), Num(0), Arr(<<>>), Obj([x |-> Null]) }

\* Plain strings of the lengths near a ceiling
PlainNear(ceiling) == { Pattern(0, <<"a">>, n) : n \in LengthsNear(ceiling) }

(***************************************************************************)
(* URLs: a scheme or path prefix followed by a short tail.                 *)
(***************************************************************************)
UrlPrefixes ==
    { <<>>, HTTP_PREFIX, HTTPS_PREFIX, DATA_PREFIX, DATA_IMAGE_PREFIX,
      <<"h", "t", "t", "p", ":", "/">>, <<"H", "T", "T", "P", ":", "/", "/">>,
      <<"f", "t", "p", ":", "/", "/">>, <<"/">>, <<".">>, <<"a">>,
      <<"d", "a", "t", "a", ":", "t", "e", "x", "t", "/">> }

UrlTails == { <<>>, <<"a">>, <<"a", ".", "p", "n", "g">>, <<"a", " ", "b">>, <<"%">>,
              <<"a", "D83D", "DE00">> }

Urls == { Str(prefix \o tail) : prefix \in UrlPrefixes, tail \in UrlTails }

GoodUrl == Str(HTTPS_PREFIX \o <<"a", ".", "p", "n", "g">>)

(***************************************************************************)
(* Table inputs.                                                           *)
(***************************************************************************)
TextRun(text) == Obj([type |-> Str(<<"t", "e", "x", "t">>), text |-> Str(text)])

RichSection(text) ==
    Obj([type |-> Str(<<"r", "i", "c", "h", "_", "t", "e", "x", "t", "_",
                        "s", "e", "c", "t", "i", "o", "n">>),
         elements |-> Arr(<<TextRun(text)>>)])

RawCell(text) == Obj([type |-> Str(RAW_TEXT), text |-> Str(text)])
RichCell(text) == Obj([type |-> Str(RICH_TEXT), elements |-> Arr(<<RichSection(text)>>)])
RichCellEmpty == Obj([type |-> Str(RICH_TEXT), elements |-> Arr(<<>>)])

GoodCells == { RawCell(<<"a">>), RawCell(<<>>), RichCell(<<"a">>) }

\* Cells that table's validation may refuse: not an object, no or another
\* tag, a raw cell without a string text, a rich cell without elements or
\* with elements that are no array; and the rich cell with no element.
OddCells ==
    { Undefined, Null, Num(1), Str(<<"c", "e", "l", "l">>), Arr(<<>>),
      Obj([text |-> Str(<<"a">>)]),
      Obj([type |-> Str(<<"i", "n", "v", "a", "l", "i", "d">>), text |-> Str(<<"a">>)]),
      Obj([type |-> Str(RAW_TEXT)]),
      Obj([type |-> Str(RAW_TEXT), text |-> Num(1)]),
      Obj([type |-> Str(RAW_TEXT), elements |-> Arr(<<RichSection(<<"a">>)>>)]),
      Obj([type |-> Str(RICH_TEXT)]),
      Obj([type |-> Str(RICH_TEXT), text |-> Str(<<"a">>)]),
      Obj([type |-> Str(RICH_TEXT), elements |-> Str(<<"a">>)]),
      RichCellEmpty }

\* nRows rows of nCells cells, all of them cell
UniformRows(nRows, nCells, cell) ==
    [i \in 1..nRows |-> Arr([j \in 1..nCells |-> cell])]

\* The same, with the cell at row r, column c (from 1) replaced by odd
RowsWithCell(nRows, nCells, r, c, odd) ==
    [i \in 1..nRows |->
        Arr([j \in 1..nCells |-> IF i = r /\ j = c THEN odd ELSE RawCell(<<"a">>)])]

\* The same, with row r replaced by the value row
RowsWithRow(nRows, nCells, r, row) ==
    [i \in 1..nRows |-> IF i = r THEN row ELSE Arr([j \in 1..nCells |-> RawCell(<<"a">>)])]

RowCounts == {0, 1, 2} \cup ((MAX_TABLE_ROWS - 1)..(MAX_TABLE_ROWS + MaxOver))
CellCounts == {0, 1, 2} \cup ((MAX_TABLE_CELLS_PER_ROW - 1)..(MAX_TABLE_CELLS_PER_ROW + MaxOver))
SettingCounts == {0, 1, 2} \cup ((MAX_COLUMN_SETTINGS - 1)..(MAX_COLUMN_SETTINGS + MaxOver))

Settings ==
    { Obj([align |-> Str(ALIGN_LEFT)]), Obj([align |-> Str(ALIGN_CENTER)]),
      Obj([align |-> Str(ALIGN_RIGHT)]),
      Obj([align |-> Str(<<"i", "n", "v", "a", "l", "i", "d">>)]),
      Obj([align |-> Str(<<>>)]), Obj([align |-> Num(1)]),
      Obj([is_wrapped |-> Num(1)]), Undefined, Null }

\* Column settings: none, values that are no array, and arrays of one setting
\* repeated, or of center settings with one other setting in them
ColumnSettingsInputs ==
    { Undefined, Null, Num(0), Str(<<>>), Num(5), Str(<<"a">>), Obj([align |-> Str(ALIGN_LEFT)]) }
    \cup { Arr([k \in 1..n |-> setting]) : n \in SettingCounts, setting \in Settings }
    \cup { Arr([k \in 1..n |-> IF k = at THEN setting ELSE Obj([align |-> Str(ALIGN_CENTER)])]) :
              n \in {2, MAX_COLUMN_SETTINGS}, at \in {1, 2}, setting \in Settings }

GoodRows == Arr(UniformRows(2, 2, RawCell(<<"a">>)))

\* Rows for tables with more than one fault: a well-formed row, a value that
\* is no array, rows with a malformed cell in the first or the second
\* column or in both, and a row of too many cells, malformed ones
FaultyRows ==
    { Arr(<<RawCell(<<"a">>), RawCell(<<"b">>)>>), Num(1),
      Arr(<<Null, RawCell(<<"a">>)>>), Arr(<<RawCell(<<"a">>), Obj([type |-> Str(RAW_TEXT)])>>),
      Arr(<<Str(<<"c", "e", "l", "l">>), Null>>),
      Arr([j \in 1..(MAX_TABLE_CELLS_PER_ROW + 1) |-> Null]) }

\* The (rows, columnSettings) pairs table is called with
TableInputs ==
    { <<Arr(UniformRows(nRows, nCells, cell)), Undefined>> :
          nRows \in RowCounts, nCells \in CellCounts, cell \in GoodCells }
    \cup { <<Arr(RowsWithCell(nRows, nCells, r, c, odd)), columnSettings>> :
              nRows \in {1, 2}, nCells \in {1, 2}, r \in {1, 2}, c \in {1, 2},
              odd \in OddCells,
              columnSettings \in { Undefined, Arr(<<Obj([align |-> Num(1)])>>) } }
    \cup { <<Arr(RowsWithCell(nRows, MAX_TABLE_CELLS_PER_ROW, nRows, MAX_TABLE_CELLS_PER_ROW, odd)),
             Undefined>> :
              nRows \in (MAX_TABLE_ROWS - 1)..(MAX_TABLE_ROWS + MaxOver), odd \in OddCells }
    \cup { <<Arr(RowsWithRow(nRows, 2, r, row)), Undefined>> :
              nRows \in {1, 2, 3}, r \in {1, 2, 3},
              row \in { Undefined, Null, Num(1), Str(<<"a">>), Obj([length |-> Num(1)]),
                        Arr(<<Null, Null>>) }
                      \cup { Arr([j \in 1..n |-> odd]) :
                               n \in (MAX_TABLE_CELLS_PER_ROW - 1)..(MAX_TABLE_CELLS_PER_ROW + MaxOver),
                               odd \in { Str(<<"c", "e", "l", "l">>), RawCell(<<"a">>) } } }
    \cup { <<rows, Undefined>> :
              rows \in { Undefined, Null, Num(1), Str(<<"a">>), Obj([length |-> Num(1)]) } }
    \cup { <<Arr(<<first, second>>), columnSettings>> :
              first \in FaultyRows, second \in FaultyRows,
              columnSettings \in { Undefined, Arr(<<Obj([align |-> Num(1)])>>) } }
    \cup { <<GoodRows, columnSettings>> : columnSettings \in ColumnSettingsInputs }
    \cup { <<Arr(UniformRows(nRows, nCells, RawCell(<<"a">>))),
             Arr([k \in 1..n |-> Obj([align |-> Str(ALIGN_CENTER)])])>> :
              nRows \in {MAX_TABLE_ROWS, MAX_TABLE_ROWS + 1},
              nCells \in {MAX_TABLE_CELLS_PER_ROW, MAX_TABLE_CELLS_PER_ROW + 1},
              n \in {MAX_COLUMN_SETTINGS, MAX_COLUMN_SETTINGS + 1} }
    \cup { <<Arr(UniformRows(nRows, 1, cell)), Undefined>> :
              nRows \in {1, 2},
              cell \in { RawCell(Pattern(0, <<"a">>, n)) : n \in LengthsNear(MAX_TEXT_LENGTH) }
                       \cup { RichCell(Pattern(0, <<"a">>, n)) : n \in LengthsNear(MAX_TEXT_LENGTH) } }

(***************************************************************************)
(* The calls a client makes.                                               *)
(***************************************************************************)
SectionInputs == NonStrings \cup { Str(t) : t \in TextsNear(MAX_TEXT_LENGTH) \cup {EmojiRun} }

HeaderInputs == NonStrings \cup { Str(t) : t \in TextsNear(MAX_HEADER_LENGTH) }

CodeInputs == NonStrings \cup { Str(t) : t \in PlainNear(MAX_TEXT_LENGTH) }

QuoteInputs ==
    NonStrings \cup { Arr(<<>>) }
    \cup { Arr(<<TextRun(t)>>) : t \in PlainNear(MAX_TEXT_LENGTH) }

ListInputs ==
    NonStrings \cup { Arr(<<>>) }
    \cup { Arr(<<RichSection(t)>>) : t \in PlainNear(MAX_TEXT_LENGTH) }

\* (url, altText, title): one argument varies while the others are plain
ImageInputs ==
    { <<url, Str(<<"a">>), title>> : url \in Urls \cup NonStrings, title \in {Undefined, Str(<<"a">>)} }
    \cup { <<GoodUrl, altText, Undefined>> :
              altText \in NonStrings \cup { Str(t) : t \in TextsNear(MAX_IMAGE_ALT_TEXT_LENGTH) } }
    \cup { <<GoodUrl, Str(<<"a">>), title>> :
              title \in { Undefined, Null } \cup { Str(t) : t \in TextsNear(MAX_IMAGE_TITLE_LENGTH) } }

BaseVideo ==
    [altText |-> Str(<<"a">>), title |-> Str(<<"a">>), thumbnailUrl |-> GoodUrl,
     videoUrl |-> GoodUrl, authorName |-> Undefined, description |-> Undefined,
     providerIconUrl |-> Undefined, providerName |-> Undefined, titleUrl |-> Undefined]

\* The options of video: one option varies while the others are those of BaseVideo
VideoInputs ==
    { [BaseVideo EXCEPT !.altText = v] :
          v \in NonStrings \cup { Str(t) : t \in PlainNear(MAX_IMAGE_ALT_TEXT_LENGTH) } }
    \cup { [BaseVideo EXCEPT !.title = v] :
              v \in NonStrings \cup { Str(t) : t \in TextsNear(MAX_VIDEO_TITLE_LENGTH) } }
    \cup { [BaseVideo EXCEPT !.description = v] :
              v \in { Undefined } \cup { Str(t) : t \in TextsNear(MAX_VIDEO_DESCRIPTION_LENGTH) } }
    \cup { [BaseVideo EXCEPT !.authorName = v] :
              v \in { Undefined } \cup { Str(t) : t \in TextsNear(MAX_VIDEO_AUTHOR_NAME_LENGTH) } }
    \cup { [BaseVideo EXCEPT !.providerName = v] : v \in { Undefined, Str(<<"a">>) } }
    \cup { [BaseVideo EXCEPT !.thumbnailUrl = v] : v \in Urls \cup NonStrings }
    \cup { [BaseVideo EXCEPT !.videoUrl = v] : v \in Urls \cup NonStrings }
    \cup { [BaseVideo EXCEPT !.titleUrl = v] : v \in Urls \cup { Undefined, Null } }
    \cup { [BaseVideo EXCEPT !.providerIconUrl = v] : v \in Urls \cup { Undefined, Null } }

\* validateInput and markdownToBlocks: the values that are no strings, and
\* strings of the lengths near the ceiling
BodyInputs ==
    NonStrings
    \cup { Filled(n) : n \in {0, 1, 2, MAX_INPUT_SIZE, MAX_INPUT_SIZE + 1} }

BlockCounts == 0..(BLOCK_LIMIT + MaxOver)
Depths == 0..(MAX_RECURSION_DEPTH + MaxOver)

(***************************************************************************)
(* The token tree the Markdown tokenizer hands to the parser.              *)
(***************************************************************************)
\* Inline nodes
Text(text) == [kind |-> "Text", text |-> text, children |-> <<>>]
Strong(children) == [kind |-> "Strong", text |-> <<>>, children |-> children]
Emphasis(children) == [kind |-> "Emphasis", text |-> <<>>, children |-> children]
Strike(children) == [kind |-> "Strike", text |-> <<>>, children |-> children]
Link(href, children) == [kind |-> "Link", text |-> <<>>, children |-> children, href |-> href]
Image(href, alt) == [kind |-> "Image", text |-> alt, children |-> <<>>, href |-> href]

\* Top-level nodes
Paragraph(children) == [kind |-> "Paragraph", text |-> <<>>, children |-> children]
Heading(children) == [kind |-> "Heading", text |-> <<>>, children |-> children]
CodeBlock(text) == [kind |-> "CodeBlock", text |-> text, children |-> <<>>]
ThematicBreak == [kind |-> "ThematicBreak", text |-> <<>>, children |-> <<>>]
\* A list and its items; an item is a checkbox item that is checked or
\* unchecked, or none
ListItem(checked, children) ==
    [kind |-> "ListItem", text |-> <<>>, children |-> children, checked |-> checked]
List(ordered, start, items) ==
    [kind |-> "List", text |-> <<>>, children |-> items, ordered |-> ordered, start |-> start]

\* A block quote of one paragraph: the paragraph's inline nodes
Blockquote(children) == [kind |-> "Blockquote", text |-> <<>>, children |-> children]

\* A Markdown table: its rows, the header row first, each cell the inline
\* nodes of its content, and the alignment of each column, "none" where the
\* delimiter row gives none
Table(rows, align) ==
    [kind |-> "Table", text |-> <<>>, children |-> <<>>, rows |-> rows, align |-> align]

\* A cell of an HTML table as the fragment parser decomposes it: the nodes of
\* its content and its align attribute, "none" when it has none
HtmlCell(children, align) == [children |-> children, align |-> align]

\* An HTML fragment with a table: its rows, those of the head first; no row
\* at all when the fragment cannot be decomposed
HtmlTable(rows) == [kind |-> "HtmlTable", text |-> <<>>, children |-> <<>>, rows |-> rows]

\* An HTML fragment that the fragment parser decomposes into an image's URL
\* and alternative text
HtmlImage(src, alt) == [kind |-> "HtmlImage", text |-> alt, children |-> <<>>, href |-> src]

\* The URLs of the links and images of the documents: one that validates,
\* 'http://' and a data: URI that is not an image
BadUrl == HTTP_PREFIX
DataTextUrl == <<"d", "a", "t", "a", ":", "t", "e", "x", "t", "/", "a">>
DocUrls == { GoodUrl.str, BadUrl, DataTextUrl }

\* The longest document of which every sequence of SmallTokens is lexed
MaxDocLen == 2

SmallTokens ==
    { Paragraph(<<Text(<<"a">>)>>), Paragraph(<<Text(<<"<", "&", ">">>), Strong(<<Text(<<"b">>)>>)>>),
      Heading(<<Text(<<"h">>), Strong(<<Text(<<"a">>)>>)>>),
      CodeBlock(<<"c">>), ThematicBreak }
    \cup { Paragraph(<<Text(<<"a">>), Image(url, <<"i">>), Text(<<"b">>)>>) : url \in DocUrls }
    \cup { Paragraph(<<Image(BadUrl, <<"i">>)>>),
           Paragraph(<<Link(GoodUrl.str, <<Text(<<"l">>)>>)>>),
           Heading(<<Link(GoodUrl.str, <<Text(<<"l">>)>>)>>) }
    \cup { Paragraph(<<Text(<<"a">>), Link(url, <<Strong(<<Text(<<"l">>)>>), Text(<<"&">>)>>)>>) :
              url \in DocUrls }
    \cup { HtmlImage(url, <<"i">>) : url \in DocUrls }
    \cup { Blockquote(<<Text(<<"q", " ">>), Strong(<<Text(<<"a">>)>>), Text(<<"\n", "r">>)>>),
           List(FALSE, 1, <<ListItem("none", <<Text(<<"a">>)>>), ListItem("none", <<Text(<<"b">>)>>)>>) }

\* The most items of a list
MaxItems == 3

\* Plain items, the letters in turn
Items(n, checked) ==
    [k \in 1..n |-> ListItem(checked[k], <<Text(<<<<"a", "b", "c">>[((k - 1) % 3) + 1]>>)>>)]

\* The lists: ordered ones from the starts around a change in the number of
\* digits, bullet lists, lists of checkbox items, and a list of styled items
ListStarts == {0, 1, 8, 9, 98, 99}
Lists ==
    { List(TRUE, start, Items(n, [k \in 1..n |-> "none"])) : start \in ListStarts, n \in 1..MaxItems }
    \cup { List(FALSE, 1, Items(Len(checked), checked)) :
              checked \in UNION { [1..n -> {"none", "checked", "unchecked"}] : n \in 1..MaxItems } }
    \cup { List(ordered, 1, <<ListItem("none", <<Text(<<"a", " ">>), Emphasis(<<Text(<<"b">>)>>)>>),
                               ListItem("none", <<Text(<<"<">>)>>)>>) : ordered \in BOOLEAN }

\* The most columns of which every choice of alignments is lexed
MaxColumns == 3

Alignments(nCols) == [1..nCols -> {"none", "left", "center", "right"}]

\* Rows of plain cells, the letters in turn
PlainRows(nRows, nCols) ==
    [i \in 1..nRows |-> [j \in 1..nCols |-> <<Text(<<<<"a", "b", "c", "d">>[((i + j) % 4) + 1]>>)>>]]

\* Rows with formatted cells: bold, italic, struck, nested styles and links
FormattedRows ==
    << << <<Text(<<"a">>)>>, <<Strong(<<Text(<<"b">>)>>)>>, <<Emphasis(<<Text(<<"c">>)>>)>>,
          <<Link(GoodUrl.str, <<Text(<<"l">>)>>)>> >>,
       << <<Text(<<"a">>), Text(<<"b">>)>>, <<Strike(<<Text(<<"b">>)>>), Text(<<"c">>)>>,
          <<Strong(<<Emphasis(<<Text(<<"c">>)>>)>>)>>, <<Link(BadUrl, <<Text(<<"l">>)>>)>> >> >>

\* The HTML table with the rows and the alignments of a Markdown table: every
\* cell carries the align attribute of its column
HtmlOf(rows, align) ==
    HtmlTable([i \in 1..Len(rows) |-> [j \in 1..Len(rows[i]) |-> HtmlCell(rows[i][j], align[j])]])

\* The tables: header rows and tables of two rows of every alignment, alone
\* and followed by the HTML table of the same rows; tables with formatted
\* cells; tables at the row and cell ceilings
SmallTables ==
    { Table(PlainRows(nRows, Len(align)), align) :
          nRows \in 1..2, align \in UNION { Alignments(nCols) : nCols \in 1..MaxColumns } }
    \cup { Table(FormattedRows, align) :
              align \in { <<"none", "none", "none", "none">>, <<"left", "center", "none", "right">> } }

TableDocs ==
    { <<t>> : t \in SmallTables }
    \cup { <<HtmlOf(t.rows, t.align)>> : t \in SmallTables }
    \cup { <<t, HtmlOf(t.rows, t.align)>> : t \in SmallTables }
    \cup { <<Table(PlainRows(2, 2), <<"left", "center">>), HtmlOf(PlainRows(2, 2), <<"left", "right">>)>>,
           <<Table(PlainRows(2, 2), <<"none", "none">>), HtmlOf(PlainRows(1, 2), <<"none", "none">>)>>,
           <<HtmlTable(<<>>)>>,
           <<Paragraph(<<Text(<<"a">>)>>), HtmlTable(<<>>), Paragraph(<<Text(<<"b">>)>>)>>,
           <<Heading(<<Text(<<"h">>)>>), Table(PlainRows(2, 2), <<"none", "none">>),
             HtmlOf(PlainRows(2, 2), <<"none", "none">>)>> }
    \cup { <<Paragraph(<<Text(<<"a">>)>>), Table(PlainRows(nRows, 1), <<"none">>)>> :
              nRows \in (MAX_TABLE_ROWS - 1)..(MAX_TABLE_ROWS + MaxOver) }
    \cup { <<Paragraph(<<Text(<<"a">>)>>), t>> :
              t \in { Table(PlainRows(1, nCols), [j \in 1..nCols |-> "center"]) :
                         nCols \in (MAX_TABLE_CELLS_PER_ROW - 1)..(MAX_TABLE_CELLS_PER_ROW + MaxOver) }
                     \cup { HtmlOf(PlainRows(nRows, 1), <<"none">>) :
                               nRows \in {MAX_TABLE_ROWS, MAX_TABLE_ROWS + 1} } }

\* The texts of the escaping tests, and every short text over the characters
\* that are escaped, the quote characters and a letter
EscapeTexts ==
    { <<"<", ">", "&", "'", "\"", "\"", "'", "&", ">", "<">>,
      <<"I", "'", "v", "e", " ", "'", "R", "'">> }
    \cup UNION { [1..n -> {"&", "<", ">", "'", "\"", "a"}] : n \in 1..MaxSmallLen }

DocLengths == {0, 1, 2} \cup ((BLOCK_LIMIT - 1)..(BLOCK_LIMIT + MaxOver))

\* The documents: the short ones, runs of one token, paragraphs and dividers
\* in turn, and a paragraph of a long text
Docs ==
    UNION { [1..n -> SmallTokens] : n \in 0..MaxDocLen }
    \cup { [i \in 1..n |-> token] : n \in DocLengths, token \in SmallTokens }
    \cup { [i \in 1..n |-> IF i % 2 = 1 THEN Paragraph(<<Text(<<"a">>)>>) ELSE ThematicBreak] :
              n \in DocLengths }
    \cup { <<Paragraph(<<Text(t)>>)>> : t \in PlainNear(MAX_TEXT_LENGTH) }
    \cup { <<list>> : list \in Lists }
    \cup TableDocs
    \cup { <<Paragraph(<<Text(t)>>)>> : t \in EscapeTexts }
    \cup { <<Paragraph(<<Text(<<"a">>)>>),
             List(FALSE, 1, <<ListItem("none", <<Text(<<"a">>)>>), ListItem("none", <<Text(<<"b">>)>>)>>),
             ThematicBreak, Paragraph(<<Text(<<"c">>)>>)>> }
    \cup { <<Paragraph(<<Text(<<"a">>)>>), list, Paragraph(<<Text(<<"b">>)>>)>> :
              list \in { List(ordered, 1, Items(2, <<"none", "none">>)) : ordered \in BOOLEAN } }
    \cup { <<Paragraph(<<Text(t), Strong(<<Text(<<"b">>)>>)>>)>> : t \in PlainNear(MAX_TEXT_LENGTH) }

(***************************************************************************)
(* The parser and the top-level transform.                                 *)
(***************************************************************************)
\* An escaping that also turns the single quote into an entity
escapeChar_Quote(c) ==
    CASE c = "&" -> <<"&", "a", "m", "p", ";">>
      [] c = "<" -> <<"&", "l", "t", ";">>
      [] c = ">" -> <<"&", "g", "t", ";">>
      [] c = "'" -> <<"&", "#", "3", "9", ";">>
      [] OTHER -> <<c>>

\* One character of a text node, escaped
escapeChar(c) ==
    CASE c = "&" -> <<"&", "a", "m", "p", ";">>
      [] c = "<" -> <<"&", "l", "t", ";">>
      [] c = ">" -> <<"&", "g", "t", ";">>
      [] OTHER -> <<c>>

\* A text node's characters with &, < and > escaped, the text taken by halves
RECURSIVE escape(_)
escape(text) ==
    IF text = <<>> THEN <<>>
    ELSE IF Len(text) = 1 THEN escapeChar(text[1])
    ELSE escape(SubSeq(text, 1, Len(text) \div 2))
         \o escape(SubSeq(text, (Len(text) \div 2) + 1, Len(text)))

\* The mrkdwn marker of an inline node
marker(kind) ==
    CASE kind = "Strong" -> <<"*">>
      [] kind = "Emphasis" -> <<"_">>
      [] kind = "Strike" -> <<"~">>
      [] OTHER -> <<>>

\* The lines of a quoted text, each behind the quote marker
quoteChar(c) == IF c = "\n" THEN <<"\n", ">", " ">> ELSE <<c>>
RECURSIVE quoteRest(_)
quoteRest(text) ==
    IF text = <<>> THEN <<>>
    ELSE IF Len(text) = 1 THEN quoteChar(text[1])
    ELSE quoteRest(SubSeq(text, 1, Len(text) \div 2))
         \o quoteRest(SubSeq(text, (Len(text) \div 2) + 1, Len(text)))
quoteLines(text) == <<">", " ">> \o quoteRest(text)

\* The decimal digits of a natural number
RECURSIVE digits(_)
digits(n) ==
    IF n < 10
    THEN <<<<"0", "1", "2", "3", "4", "5", "6", "7", "8", "9">>[n + 1]>>
    ELSE digits(n \div 10) \o digits(n % 10)

\* options.lists.checkboxPrefix(checked): the caller's function, or, when
\* none is given, the bullet
BULLET == <<"2022", " ">>
checkboxPrefix(option, checked) ==
    IF option = "custom"
    THEN IF checked THEN <<"[", "x", "]", " ">> ELSE <<"[", " ", "]", " ">>
    ELSE BULLET

\* Prefixes that number the items of every ordered list from 1
itemPrefix_FromOne(list, k, item, option) ==
    IF list.ordered
    THEN digits(k + 1) \o <<".", " ">>
    ELSE IF item.checked # "none"
    THEN checkboxPrefix(option, item.checked = "checked")
    ELSE BULLET

\* The prefix of the item at position k (from 0) of a list
itemPrefix(list, k, item, option) ==
    IF list.ordered
    THEN digits(list.start + k) \o <<".", " ">>
    ELSE IF item.checked # "none"
    THEN checkboxPrefix(option, item.checked = "checked")
    ELSE BULLET

\* The text of inline nodes without their formatting
RECURSIVE plainText(_)
plainText(nodes) ==
    IF nodes = <<>> THEN <<>>
    ELSE (IF Head(nodes).kind = "Text"
          THEN Head(nodes).text
          ELSE plainText(Head(nodes).children))
         \o plainText(Tail(nodes))

\* The common model that takes no alignment from the cells of an HTML table
tableModel_HtmlUnaligned(token) ==
    IF token.kind = "Table"
    THEN [rows |-> token.rows, alignments |-> token.align]
    ELSE [rows |-> [i \in 1..Len(token.rows) |->
                      [j \in 1..Len(token.rows[i]) |->
                          <<Text(plainText(token.rows[i][j].children))>>]],
          alignments |-> IF token.rows = <<>> THEN <<>>
                         ELSE [j \in 1..Len(token.rows[1]) |-> "none"]]

\* The TableModel of a Markdown table or of an HTML table: the rows of cells
\* and one alignment per column. The cells of an HTML table keep the text of
\* their content only; its alignments are those of the cells of its first row
tableModel(token) ==
    IF token.kind = "Table"
    THEN [rows |-> token.rows, alignments |-> token.align]
    ELSE [rows |-> [i \in 1..Len(token.rows) |->
                      [j \in 1..Len(token.rows[i]) |->
                          <<Text(plainText(token.rows[i][j].children))>>]],
          alignments |-> IF token.rows = <<>> THEN <<>>
                         ELSE [j \in 1..Len(token.rows[1]) |-> token.rows[1][j].align]]

\* The style of a run: the flags that are set
NoStyle == [bold |-> FALSE, italic |-> FALSE, strike |-> FALSE]
styleOf(kind, style) ==
    CASE kind = "Strong" -> [style EXCEPT !.bold = TRUE]
      [] kind = "Emphasis" -> [style EXCEPT !.italic = TRUE]
      [] kind = "Strike" -> [style EXCEPT !.strike = TRUE]
      [] OTHER -> style

\* A run of text, with its style when a flag is set
textRun(text, style) ==
    LET flags == { f \in {"bold", "italic", "strike"} : style[f] }
        run == [type |-> Str(<<"t", "e", "x", "t">>), text |-> Str(text)]
    IN  IF flags = {} THEN Obj(run)
        ELSE Obj(run @@ [style |-> Obj([f \in flags |-> [t |-> "boolean", bool |-> TRUE]])])

\* A link run: the URL and the label
linkRun(href, text) ==
    Obj([type |-> Str(<<"l", "i", "n", "k">>), url |-> Str(href), text |-> Str(text)])

\* The inline nodes as styled runs: a styled node sets its flag on the runs
\* of its children, a link whose URL fails validation is a run of its label
RECURSIVE richRuns(_, _)
richRuns(nodes, style) ==
    IF nodes = <<>> THEN <<>>
    ELSE (CASE Head(nodes).kind = "Text" -> <<textRun(Head(nodes).text, style)>>
            [] Head(nodes).kind = "Link" ->
                   IF validateUrl(Str(Head(nodes).href))
                   THEN <<linkRun(Head(nodes).href, plainText(Head(nodes).children))>>
                   ELSE <<textRun(plainText(Head(nodes).children), style)>>
            [] OTHER -> richRuns(Head(nodes).children, styleOf(Head(nodes).kind, style)))
         \o richRuns(Tail(nodes), style)

\* A cell of the Table block: raw text when its content is plain text without
\* styling or link, else a rich-text cell of one section of styled runs
buildCell(children) ==
    IF \A k \in 1..Len(children) : children[k].kind = "Text"
    THEN Obj([type |-> Str(RAW_TEXT), text |-> Str(plainText(children))])
    ELSE Obj([type |-> Str(RICH_TEXT),
              elements |-> Arr(<<Obj([type |-> Str(<<"r", "i", "c", "h", "_", "t", "e", "x", "t", "_",
                                                     "s", "e", "c", "t", "i", "o", "n">>),
                                      elements |-> Arr(richRuns(children, NoStyle))])>>)])

\* The name of an alignment as a string value
alignValue(a) ==
    CASE a = "left" -> Str(ALIGN_LEFT)
      [] a = "center" -> Str(ALIGN_CENTER)
      [] a = "right" -> Str(ALIGN_RIGHT)

\* Column settings with one entry for every aligned column, the first too
columnSettingsOf_AllColumns(alignments) ==
    LET emitted(j) == alignments[j] # "none"
        columns == SelectSeq([j \in 1..Len(alignments) |-> j], emitted)
    IN  IF columns = <<>> THEN Undefined
        ELSE Arr([k \in 1..Len(columns) |-> Obj([align |-> alignValue(alignments[columns[k]])])])

\* The column settings of the alignments: none for the first column; one for
\* each later column that is centered or right-aligned, and for a
\* left-aligned one that follows such a column; undefined when there is none
columnSettingsOf(alignments) ==
    LET emitted(j) ==
            /\ j > 1
            /\ \/ alignments[j] \in {"center", "right"}
               \/ /\ alignments[j] = "left"
                  /\ \E i \in 2..(j - 1) : alignments[i] \in {"center", "right"}
        columns == SelectSeq([j \in 1..Len(alignments) |-> j], emitted)
    IN  IF columns = <<>> THEN Undefined
        ELSE Arr([k \in 1..Len(columns) |-> Obj([align |-> alignValue(alignments[columns[k]])])])

\* buildTable(model): the Table block of a TableModel
buildTable(model) ==
    table(Arr([i \in 1..Len(model.rows) |->
                  Arr([j \in 1..Len(model.rows[i]) |-> buildCell(model.rows[i][j])])]),
          columnSettingsOf(model.alignments))

\* The closed Accumulator
NoAcc == [open |-> FALSE, text |-> <<>>]

\* A flush that clears the Accumulator without emitting its Section
flush_Drop(bs, a) == bs

\* The blocks with the open Accumulator, if any, flushed into a Section
flush(bs, a) == IF a.open THEN Append(bs, section(Str(a.text)).val) ELSE bs

\* The Accumulator after the rendered text of a paragraph's inline child is
\* appended to it, and the blocks: a buffer that would exceed the text
\* ceiling is flushed first
accumulate(bs, a, text) ==
    IF ~a.open
    THEN [blocks |-> bs, acc |-> [open |-> TRUE, text |-> text]]
    ELSE IF Len(a.text) + Len(text) > MAX_TEXT_LENGTH
    THEN [blocks |-> flush(bs, a), acc |-> [open |-> TRUE, text |-> text]]
    ELSE [blocks |-> bs, acc |-> [open |-> TRUE, text |-> a.text \o text]]

\* A frame of the inline rendering: the sibling nodes, the next one to
\* render, the text rendered so far and the marker that wraps it
Frame(nodes, mark, flat) ==
    [nodes |-> nodes, i |-> 1, out |-> <<>>, mark |-> mark, close |-> mark, flat |-> flat]

\* What a rendered link starts and ends with: '<url|' and '> ' around its
\* label; nothing when the URL fails validation or the text is plain text
linkOpen(href, flat) ==
    IF flat \/ ~validateUrl(Str(href)) THEN <<>> ELSE <<"<">> \o href \o <<"|">>
linkClose(href, flat) ==
    IF flat \/ ~validateUrl(Str(href)) THEN <<>> ELSE <<">", " ">>

\* The frame of the rendering of the children of a styled node or a link
ChildFrame(node, flat) ==
    IF node.kind = "Link"
    THEN [Frame(node.children, linkOpen(node.href, flat), flat)
             EXCEPT !.close = linkClose(node.href, flat)]
    ELSE Frame(node.children, IF flat THEN <<>> ELSE marker(node.kind), flat)

\* The depth of the innermost rendering call
Depth == Len(stack) - 1

(***************************************************************************)
(* The state machine: a client makes one call; a builder or a validation   *)
(* function completes in one step, markdownToBlocks in several.            *)
(***************************************************************************)
Idle ==
    /\ body = Undefined
    /\ doc = <<>>
    /\ tokens = <<>>
    /\ nesting = 0
    /\ blocks = <<>>
    /\ acc = NoAcc
    /\ stack = <<>>

\* No other call in progress, none completed: the call is the first one and
\* has run alone so far
NoSched == [parked |-> EmptyBag, started |-> 1, mixed |-> FALSE, log |-> {}]

Init ==
    /\ pc = "start"
    /\ ret = NoCall
    /\ sched = NoSched
    /\ \/ /\ Idle
          /\ \/ \E text \in SectionInputs : call = [fn |-> "section", text |-> text]
             \/ \E text \in HeaderInputs : call = [fn |-> "header", text |-> text]
             \/ call = [fn |-> "divider"]
             \/ \E in \in ImageInputs :
                    call = [fn |-> "image", url |-> in[1], altText |-> in[2], title |-> in[3]]
             \/ \E options \in VideoInputs : call = [fn |-> "video", options |-> options]
             \/ \E externalId \in NonStrings \cup {Str(<<>>), Str(<<"a">>)} :
                    call = [fn |-> "file", externalId |-> externalId]
             \/ \E items \in ListInputs, style \in {"bullet", "ordered"} :
                    call = [fn |-> "richTextList", items |-> items, style |-> style, indent |-> 0]
             \/ \E code \in CodeInputs : call = [fn |-> "richTextCode", code |-> code]
             \/ \E elements \in QuoteInputs : call = [fn |-> "richTextQuote", elements |-> elements]
             \/ \E in \in TableInputs :
                    call = [fn |-> "table", rows |-> in[1], columnSettings |-> in[2]]
             \/ \E input \in BodyInputs : call = [fn |-> "validateInput", input |-> input]
             \/ \E url \in Urls \cup NonStrings : call = [fn |-> "validateUrl", url |-> url]
             \/ \E blockCount \in BlockCounts, maxBlocks \in {BLOCK_LIMIT, 0, 1} :
                    call = [fn |-> "validateBlockCount", blockCount |-> blockCount,
                            maxBlocks |-> maxBlocks]
             \/ \E depth \in Depths : call = [fn |-> "validateRecursionDepth", depth |-> depth]
             \/ \E text \in SmallTexts, maxLength \in 0..MaxSmallLen :
                    call = [fn |-> "safeTruncate", text |-> text, maxLength |-> maxLength]
       \/ /\ \E option \in {"none", "custom"} :
                 call = [fn |-> "markdownToBlocks", checkboxPrefix |-> option]
          /\ body \in BodyInputs
          /\ doc = <<>>
          /\ tokens = <<>>
          /\ nesting = 0
          /\ blocks = <<>>
          /\ acc = NoAcc
          /\ stack = <<>>

\* A call of a function that completes in one step with outcome r
Complete(fn, r) ==
    /\ pc = "start"
    /\ call.fn = fn
    /\ ret' = r
    /\ pc' = "done"
    /\ UNCHANGED <<sched, doc, call, body, tokens, blocks, acc, stack, nesting>>

CallSection == Complete("section", section(call.text))
CallHeader == Complete("header", header(call.text))
CallDivider == Complete("divider", divider)
CallImage == Complete("image", image(call.url, call.altText, call.title))
CallVideo == Complete("video", video(call.options))
CallFile == Complete("file", file(call.externalId))
CallRichTextList == Complete("richTextList", richTextList(call.items, call.style, call.indent))
CallRichTextCode == Complete("richTextCode", richTextCode(call.code))
CallRichTextQuote == Complete("richTextQuote", richTextQuote(call.elements))
CallTable == Complete("table", table(call.rows, call.columnSettings))
CallValidateInput == Complete("validateInput", validateInput(ValueOf(call.input)))
CallValidateUrl == Complete("validateUrl", Return([t |-> "boolean", bool |-> validateUrl(call.url)]))
CallValidateBlockCount ==
    Complete("validateBlockCount", validateBlockCount(call.blockCount, call.maxBlocks))
CallValidateRecursionDepth ==
    Complete("validateRecursionDepth", validateRecursionDepth(call.depth))
CallSafeTruncate ==
    Complete("safeTruncate", Return(Str(safeTruncate(call.text, call.maxLength))))

(***************************************************************************)
(* markdownToBlocks(body): validate the input, lex it, parse the tokens    *)
(* into blocks, validate the block count, return the blocks.               *)
(***************************************************************************)
\* What body holds once the tokenizer has taken the text
Lexed == [t |-> "lexed"]

\* The call fails with outcome r
Fail(r) ==
    /\ ret' = r
    /\ pc' = "done"

\* validateInput(body)
Validate ==
    /\ pc = "start"
    /\ call.fn = "markdownToBlocks"
    /\ IF Threw(validateInput(ValueOf(body)))
       THEN Fail(validateInput(ValueOf(body)))
       ELSE pc' = "lex" /\ ret' = ret
    /\ UNCHANGED <<sched, doc, call, body, tokens, blocks, acc, stack, nesting>>

\* The tokenizer, an external component, lexes the body into some document;
\* the body is not read again
Lex ==
    /\ pc = "lex"
    /\ tokens' \in Docs
    /\ doc' = tokens'
    /\ body' = Lexed
    /\ pc' = "parse"
    /\ UNCHANGED <<sched, call, ret, nesting, blocks, acc, stack>>

\* or into a paragraph or a heading with inline content that it has still to
\* nest in styled nodes
LexNested ==
    /\ pc = "lex"
    /\ tokens' \in { <<Paragraph(<<Text(<<"a">>)>>)>>, <<Heading(<<Text(<<"a">>)>>)>> }
    /\ doc' = tokens'
    /\ body' = Lexed
    /\ pc' = "nest"
    /\ UNCHANGED <<sched, call, ret, nesting, blocks, acc, stack>>

\* One more level around the inline content: emphasis and strong in turn,
\* what **_ ... _** nests
Nest ==
    /\ pc = "nest"
    /\ nesting < MaxNesting
    /\ nesting' = nesting + 1
    /\ tokens' = <<[Head(tokens) EXCEPT
                      !.children = IF nesting % 2 = 0 THEN <<Emphasis(@)>> ELSE <<Strong(@)>>]>>
    /\ doc' = tokens'
    /\ UNCHANGED <<sched, pc, call, ret, body, blocks, acc, stack>>

\* The token is handed to the parser
NestEnd ==
    /\ pc = "nest"
    /\ pc' = "parse"
    /\ UNCHANGED <<sched, doc, call, ret, body, tokens, nesting, blocks, acc, stack>>

\* A Paragraph: its inline children are rendered as mrkdwn, one after the
\* other, into the Accumulator
ParseParagraph ==
    /\ pc = "parse"
    /\ tokens # <<>>
    /\ Head(tokens).kind = "Paragraph"
    /\ IF Threw(validateRecursionDepth(0))
       THEN Fail(validateRecursionDepth(0)) /\ stack' = stack
       ELSE /\ stack' = <<Frame(Head(tokens).children, <<>>, FALSE)>>
            /\ pc' = "render"
            /\ ret' = ret
    /\ UNCHANGED <<sched, doc, call, body, tokens, blocks, acc, nesting>>

\* A Heading is block-terminal: the open Accumulator is flushed and the
\* heading's inline content is rendered as plain text
ParseHeading ==
    /\ pc = "parse"
    /\ tokens # <<>>
    /\ Head(tokens).kind = "Heading"
    /\ blocks' = flush(blocks, acc)
    /\ acc' = NoAcc
    /\ IF Threw(validateRecursionDepth(0))
       THEN Fail(validateRecursionDepth(0)) /\ stack' = stack
       ELSE /\ stack' = <<Frame(Head(tokens).children, <<>>, TRUE)>>
            /\ pc' = "render"
            /\ ret' = ret
    /\ UNCHANGED <<sched, doc, call, body, tokens, nesting>>

\* A List is block-terminal: its items are rendered as mrkdwn, one line
\* each; so is a Blockquote: its content is rendered as mrkdwn
ParseList ==
    /\ pc = "parse"
    /\ tokens # <<>>
    /\ Head(tokens).kind \in {"List", "Blockquote"}
    /\ blocks' = flush(blocks, acc)
    /\ acc' = NoAcc
    /\ IF Threw(validateRecursionDepth(0))
       THEN Fail(validateRecursionDepth(0)) /\ stack' = stack
       ELSE /\ stack' = <<Frame(Head(tokens).children, <<>>, FALSE)>>
            /\ pc' = "render"
            /\ ret' = ret
    /\ UNCHANGED <<sched, doc, call, body, tokens, nesting>>

\* A code block is block-terminal: a Section of the fenced code
ParseCodeBlock ==
    /\ pc = "parse"
    /\ tokens # <<>>
    /\ Head(tokens).kind = "CodeBlock"
    /\ blocks' = Append(flush(blocks, acc),
                        section(Str(<<"0060", "0060", "0060", "\n">> \o Head(tokens).text
                                    \o <<"\n", "0060", "0060", "0060">>)).val)
    /\ acc' = NoAcc
    /\ tokens' = Tail(tokens)
    /\ UNCHANGED <<sched, doc, pc, call, ret, body, stack, nesting>>

\* A thematic break is block-terminal: a Divider
ParseThematicBreak ==
    /\ pc = "parse"
    /\ tokens # <<>>
    /\ Head(tokens).kind = "ThematicBreak"
    /\ blocks' = Append(flush(blocks, acc), divider.val)
    /\ acc' = NoAcc
    /\ tokens' = Tail(tokens)
    /\ UNCHANGED <<sched, doc, pc, call, ret, body, stack, nesting>>

\* A Markdown table is block-terminal: a Table block, or the error of the
\* table builder
ParseTable ==
    /\ pc = "parse"
    /\ tokens # <<>>
    /\ Head(tokens).kind = "Table"
    /\ IF Threw(buildTable(tableModel(Head(tokens))))
       THEN /\ Fail(buildTable(tableModel(Head(tokens))))
            /\ blocks' = flush(blocks, acc)
            /\ tokens' = tokens
       ELSE /\ blocks' = Append(flush(blocks, acc), buildTable(tableModel(Head(tokens))).val)
            /\ tokens' = Tail(tokens)
            /\ UNCHANGED <<pc, ret>>
    /\ acc' = NoAcc
    /\ UNCHANGED <<sched, doc, call, body, stack, nesting>>

\* An HTML fragment with a table is block-terminal: a Table block, or the
\* error of the table builder; a fragment without any row is skipped
ParseHtmlTable ==
    /\ pc = "parse"
    /\ tokens # <<>>
    /\ Head(tokens).kind = "HtmlTable"
    /\ IF tableModel(Head(tokens)).rows = <<>>
       THEN /\ tokens' = Tail(tokens)
            /\ UNCHANGED <<pc, ret, blocks, acc>>
       ELSE IF Threw(buildTable(tableModel(Head(tokens))))
       THEN /\ Fail(buildTable(tableModel(Head(tokens))))
            /\ blocks' = flush(blocks, acc)
            /\ acc' = NoAcc
            /\ tokens' = tokens
       ELSE /\ blocks' = Append(flush(blocks, acc), buildTable(tableModel(Head(tokens))).val)
            /\ acc' = NoAcc
            /\ tokens' = Tail(tokens)
            /\ UNCHANGED <<pc, ret>>
    /\ UNCHANGED <<sched, doc, call, body, stack, nesting>>

\* An HTML fragment with an image is block-terminal: an Image block; one
\* whose URL fails validation is skipped
ParseHtmlImage ==
    /\ pc = "parse"
    /\ tokens # <<>>
    /\ Head(tokens).kind = "HtmlImage"
    /\ IF validateUrl(Str(Head(tokens).href))
       THEN /\ blocks' = Append(flush(blocks, acc),
                                image(Str(Head(tokens).href), Str(Head(tokens).text), Undefined).val)
            /\ acc' = NoAcc
       ELSE UNCHANGED <<blocks, acc>>
    /\ tokens' = Tail(tokens)
    /\ UNCHANGED <<sched, doc, pc, call, ret, body, stack, nesting>>

\* The end of the input: the open Accumulator is flushed
ParseEnd ==
    /\ pc = "parse"
    /\ tokens = <<>>
    /\ blocks' = flush(blocks, acc)
    /\ acc' = NoAcc
    /\ pc' = "count"
    /\ UNCHANGED <<sched, doc, call, ret, body, tokens, stack, nesting>>

\* The innermost frame and the node it is at
Top == stack[Len(stack)]
AtNode == Top.i <= Len(Top.nodes)
Node == Top.nodes[Top.i]

\* The stack with its innermost frame's text extended by text and its
\* position moved to the next node
Advance(st, text) ==
    [st EXCEPT ![Len(st)].out = @ \o text, ![Len(st)].i = @ + 1]

\* The rendered text of a node goes to the call st that rendered it: into the
\* Accumulator when that is the paragraph's own, else into the call's text
Deliver(st, text) ==
    IF Len(st) = 1 /\ Head(tokens).kind = "Paragraph"
    THEN /\ blocks' = accumulate(blocks, acc, text).blocks
         /\ acc' = accumulate(blocks, acc, text).acc
         /\ stack' = Advance(st, <<>>)
    ELSE /\ stack' = Advance(st, text)
         /\ UNCHANGED <<blocks, acc>>

\* A text node: its escaped characters
RenderText ==
    /\ pc = "render"
    /\ AtNode
    /\ Node.kind = "Text"
    /\ Deliver(stack, escape(Node.text))
    /\ UNCHANGED <<sched, doc, pc, call, ret, body, tokens, nesting>>

\* An image that is a direct child of a paragraph: the open Accumulator is
\* flushed and the Image block follows it; an image whose URL fails
\* validation is skipped
RenderImage ==
    /\ pc = "render"
    /\ AtNode
    /\ Node.kind = "Image"
    /\ Len(stack) = 1
    /\ IF validateUrl(Str(Node.href))
       THEN /\ blocks' = Append(flush(blocks, acc),
                                image(Str(Node.href), Str(Node.text), Undefined).val)
            /\ acc' = NoAcc
       ELSE UNCHANGED <<blocks, acc>>
    /\ stack' = Advance(stack, <<>>)
    /\ UNCHANGED <<sched, doc, pc, call, ret, body, tokens, nesting>>

\* An item of a list: a new line, but for the first item, that starts with
\* the item's prefix and goes on with the item's inline content
RenderItem ==
    /\ pc = "render"
    /\ AtNode
    /\ Node.kind = "ListItem"
    /\ stack' = Append(stack,
                       [Frame(Node.children,
                              (IF Top.i > 1 THEN <<"\n">> ELSE <<>>)
                                  \o itemPrefix(Head(tokens), Top.i - 1, Node, call.checkboxPrefix),
                              FALSE)
                           EXCEPT !.close = <<>>])
    /\ IF Threw(validateRecursionDepth(Depth + 1))
       THEN Fail(validateRecursionDepth(Depth + 1))
       ELSE pc' = pc /\ ret' = ret
    /\ UNCHANGED <<sched, doc, call, body, tokens, blocks, acc, nesting>>

\* A styled node or a link: the recursive call on its children, one level
\* deeper, which fails beyond the recursion ceiling
RenderDescend ==
    /\ pc = "render"
    /\ AtNode
    /\ Node.kind \in {"Strong", "Emphasis", "Strike", "Link"}
    /\ stack' = Append(stack, ChildFrame(Node, Top.flat))
    /\ IF Threw(validateRecursionDepth(Depth + 1))
       THEN Fail(validateRecursionDepth(Depth + 1))
       ELSE pc' = pc /\ ret' = ret
    /\ UNCHANGED <<sched, doc, call, body, tokens, blocks, acc, nesting>>

\* The recursive call returns: its text, wrapped in its marker, is appended
\* to the caller's
RenderReturn ==
    /\ pc = "render"
    /\ ~AtNode
    /\ Len(stack) > 1
    /\ Deliver(SubSeq(stack, 1, Len(stack) - 1), Top.mark \o Top.out \o Top.close)
    /\ UNCHANGED <<sched, doc, pc, call, ret, body, tokens, nesting>>

\* A parser that lets a paragraph's text join the Section before it, after a
\* newline
parseParagraph_Accumulating(bs, a) ==
    IF a.open /\ bs # <<>> /\ bs[Len(bs)].type = "section"
    THEN [bs EXCEPT ![Len(bs)] =
             section(Str(bs[Len(bs)].text.text.str \o <<"\n">> \o a.text)).val]
    ELSE flush(bs, a)

\* The blocks at the end of a paragraph: the paragraph's Section is closed,
\* so that the next paragraph opens one of its own
parseParagraph(bs, a) == flush(bs, a)

\* The outermost call returns: a paragraph's Accumulator is flushed, a
\* heading's text becomes a Header, a list's lines and a block quote's
\* quoted lines become a Section
RenderDone ==
    /\ pc = "render"
    /\ ~AtNode
    /\ Len(stack) = 1
    /\ IF Head(tokens).kind = "Heading"
       THEN /\ blocks' = Append(blocks, header(Str(Top.out)).val)
            /\ acc' = acc
       ELSE IF Head(tokens).kind = "List"
       THEN /\ blocks' = Append(blocks, section(Str(Top.out)).val)
            /\ acc' = acc
       ELSE IF Head(tokens).kind = "Blockquote"
       THEN /\ blocks' = Append(blocks, section(Str(quoteLines(Top.out))).val)
            /\ acc' = acc
       ELSE /\ blocks' = parseParagraph(blocks, acc)
            /\ acc' = NoAcc
    /\ tokens' = Tail(tokens)
    /\ stack' = <<>>
    /\ pc' = "parse"
    /\ UNCHANGED <<sched, doc, call, ret, body, nesting>>

\* validateBlockCount(blocks.length), then the blocks are returned
Count ==
    /\ pc = "count"
    /\ IF Threw(validateBlockCount(Len(blocks), BLOCK_LIMIT))
       THEN ret' = validateBlockCount(Len(blocks), BLOCK_LIMIT)
       ELSE ret' = Return(Arr(blocks))
    /\ pc' = "done"
    /\ UNCHANGED <<sched, doc, call, body, tokens, blocks, acc, stack, nesting>>

Next ==
    \/ CallSection
    \/ CallHeader
    \/ CallDivider
    \/ CallImage
    \/ CallVideo
    \/ CallFile
    \/ CallRichTextList
    \/ CallRichTextCode
    \/ CallRichTextQuote
    \/ CallTable
    \/ CallValidateInput
    \/ CallValidateUrl
    \/ CallValidateBlockCount
    \/ CallValidateRecursionDepth
    \/ CallSafeTruncate
    \/ Validate
    \/ Lex
    \/ LexNested
    \/ Nest
    \/ NestEnd
    \/ ParseParagraph
    \/ ParseHeading
    \/ ParseCodeBlock
    \/ ParseThematicBreak
    \/ ParseList
    \/ ParseTable
    \/ ParseHtmlTable
    \/ ParseHtmlImage
    \/ ParseEnd
    \/ RenderText
    \/ RenderImage
    \/ RenderItem
    \/ RenderDescend
    \/ RenderReturn
    \/ RenderDone
    \/ Count

Spec == Init /\ [][Next]_vars

(***************************************************************************)
(* Several calls of markdownToBlocks in progress at once. The function is  *)
(* async: a caller may start a call while others have not returned. What   *)
(* a call works on are its own locals, so the variables above are the      *)
(* locals of the call that is running, and sched.parked is the bag of the  *)
(* locals of the calls that wait. Any step may be followed by a step of    *)
(* another call.                                                           *)
(***************************************************************************)
\* The calls started in one behaviour
MaxCalls == 3

\* The locals of the running call
Context ==
    [pc |-> pc, call |-> call, ret |-> ret, body |-> body, doc |-> doc, tokens |-> tokens,
     nesting |-> nesting, blocks |-> blocks, acc |-> acc, stack |-> stack]

\* The locals of a call of markdownToBlocks(text) that has not taken a step:
\* no blocks, no open Accumulator, no rendering call
FreshContext(text) ==
    [pc |-> "start", call |-> [fn |-> "markdownToBlocks", checkboxPrefix |-> "none"],
     ret |-> NoCall, body |-> text, doc |-> <<>>, tokens |-> <<>>, nesting |-> 0,
     blocks |-> <<>>, acc |-> NoAcc, stack |-> <<>>]

\* A scheduler under which the Accumulator is one for all calls: the call
\* that goes on finds the pending text of the call that ran before it
Resume_SharedAccumulator(ctx) ==
    /\ pc' = ctx.pc
    /\ call' = ctx.call
    /\ ret' = ctx.ret
    /\ body' = ctx.body
    /\ doc' = ctx.doc
    /\ tokens' = ctx.tokens
    /\ nesting' = ctx.nesting
    /\ blocks' = ctx.blocks
    /\ acc' = acc
    /\ stack' = ctx.stack

\* The call with locals ctx goes on
Resume(ctx) ==
    /\ pc' = ctx.pc
    /\ call' = ctx.call
    /\ ret' = ctx.ret
    /\ body' = ctx.body
    /\ doc' = ctx.doc
    /\ tokens' = ctx.tokens
    /\ nesting' = ctx.nesting
    /\ blocks' = ctx.blocks
    /\ acc' = ctx.acc
    /\ stack' = ctx.stack

\* The texts of the concurrent calls: a short one, and a value that fails
\* validation
ConcurrentBodies == { Filled(1), Null }

\* What the tokenizer makes of the short texts: paragraphs, a paragraph with
\* a styled part, a paragraph before a heading, and a paragraph before a
\* table with too many cells in a row, at which the call fails
ShortDocs ==
    { <<Paragraph(<<Text(<<"a">>)>>), Paragraph(<<Text(<<"b">>)>>)>>,
      <<Paragraph(<<Text(<<"a">>), Strong(<<Text(<<"b">>)>>)>>)>>,
      <<Paragraph(<<Text(<<"c">>)>>), Heading(<<Text(<<"h">>)>>)>>,
      <<Paragraph(<<Text(<<"a">>)>>),
        Table(PlainRows(1, MAX_TABLE_CELLS_PER_ROW + 1),
              [j \in 1..(MAX_TABLE_CELLS_PER_ROW + 1) |-> "none"])>> }

\* What a completed call is remembered by: its input, whether it ran alone
\* from start to end, and its outcome
Entry ==
    [body |-> body, doc |-> doc, option |-> call.checkboxPrefix,
     alone |-> ~sched.mixed, ret |-> ret]

InitConcurrent ==
    /\ pc = "start"
    /\ ret = NoCall
    /\ call = [fn |-> "markdownToBlocks", checkboxPrefix |-> "none"]
    /\ body \in ConcurrentBodies
    /\ doc = <<>>
    /\ tokens = <<>>
    /\ nesting = 0
    /\ blocks = <<>>
    /\ acc = NoAcc
    /\ stack = <<>>
    /\ sched = NoSched

\* The tokenizer lexes the body into one of the short documents
LexShort ==
    /\ pc = "lex"
    /\ tokens' \in ShortDocs
    /\ doc' = tokens'
    /\ body' = Lexed
    /\ pc' = "parse"
    /\ UNCHANGED <<sched, call, ret, nesting, blocks, acc, stack>>

\* A caller starts another call while the running one has not returned
Begin ==
    /\ pc \notin {"start", "done"}
    /\ sched.started < MaxCalls
    /\ \E text \in ConcurrentBodies : Resume(FreshContext(text))
    /\ sched' = [sched EXCEPT !.parked = @ (+) SetToBag({Context}), !.started = @ + 1,
                              !.mixed = TRUE]

\* The running call is suspended and a waiting one goes on
Switch ==
    /\ pc \notin {"start", "done"}
    /\ \E ctx \in BagToSet(sched.parked) :
           /\ Resume(ctx)
           /\ sched' = [sched EXCEPT
                           !.parked = (@ (-) SetToBag({ctx})) (+) SetToBag({Context}),
                           !.mixed = TRUE]

\* The running call has returned or thrown; a waiting one goes on
Retire ==
    /\ pc = "done"
    /\ \E ctx \in BagToSet(sched.parked) :
           /\ Resume(ctx)
           /\ sched' = [sched EXCEPT
                           !.parked = @ (-) SetToBag({ctx}),
                           !.log = @ \cup {Entry},
                           !.mixed = TRUE]

\* The running call has returned or thrown and none waits; a later call
\* starts
Again ==
    /\ pc = "done"
    /\ sched.parked = EmptyBag
    /\ sched.started < MaxCalls
    /\ \E text \in ConcurrentBodies : Resume(FreshContext(text))
    /\ sched' = [sched EXCEPT !.started = @ + 1, !.log = @ \cup {Entry}, !.mixed = FALSE]

NextConcurrent ==
    \/ Validate
    \/ LexShort
    \/ ParseParagraph
    \/ ParseHeading
    \/ ParseTable
    \/ ParseEnd
    \/ RenderText
    \/ RenderDescend
    \/ RenderReturn
    \/ RenderDone
    \/ Count
    \/ Begin
    \/ Switch
    \/ Retire
    \/ Again

SpecConcurrent == InitConcurrent /\ [][NextConcurrent]_vars

(***************************************************************************)
(* Properties.                                                             *)
(***************************************************************************)
Done(fn) == pc = "done" /\ call.fn = fn

\* markdownToBlocks has parsed all of its tokens and validated the count
Counted == Done("markdownToBlocks") /\ body = Lexed /\ tokens = <<>> /\ stack = <<>>

IsValidationError(r) ==
    /\ Threw(r)
    /\ r.err.name = "ValidationError"
    /\ r.err.code = "VALIDATION_ERROR"

\* C1: a call of markdownToBlocks that returns, returns at most 50 blocks, all
\* those it emitted; a document of 1 to 50 blocks succeeds, one of 51 or more
\* fails with an error that mentions "Block count"; validateBlockCount(n, max)
\* throws exactly when n > max.
C1_BlockCountCeiling ==
    /\ (Done("markdownToBlocks") /\ Returned(ret)) =>
           /\ Len(ret.val.arr) <= 50
           /\ ret.val.arr = blocks
    /\ (Counted /\ Len(blocks) <= 50) => Returned(ret)
    /\ (Counted /\ Len(blocks) >= 51) =>
           /\ Threw(ret)
           /\ Mentions(ret.err.message, <<"Block", "count">>)
    /\ Done("validateBlockCount") => (Threw(ret) <=> call.blockCount > call.maxBlocks)

C1_Witness ==
    /\ Counted
    /\ Returned(ret)
    /\ Len(ret.val.arr) = 50

\* A string of 1 to 1,000,000 code units
Acceptable(input) ==
    /\ input.t = "string"
    /\ Len(input.str) >= 1
    /\ Len(input.str) <= 1000000

\* C2: validateInput accepts exactly the strings of length 1 to 1,000,000; a
\* longer one raises a ValidationError that mentions "exceeds maximum"; null,
\* undefined, a value that is no string and the empty string raise
\* ValidationError, and markdownToBlocks then fails before any block is produced.
C2_ValidateInput ==
    /\ Done("validateInput") =>
           /\ Returned(ret) <=> Acceptable(ValueOf(call.input))
           /\ ~Acceptable(ValueOf(call.input)) => IsValidationError(ret)
           /\ (call.input.t = "filled" /\ Len(ValueOf(call.input).str) > 1000000) =>
                  Mentions(ret.err.message, <<"exceeds", "maximum">>)
    /\ (call.fn = "markdownToBlocks" /\ pc # "start" /\ body # Lexed) =>
           IF Acceptable(ValueOf(body))
           THEN pc = "lex"
           ELSE /\ pc = "done"
                /\ IsValidationError(ret)
                /\ blocks = <<>>
    /\ (call.fn = "markdownToBlocks" /\ pc = "start") => blocks = <<>>

\* validateInput returns for a string of 1,000,000 code units
C2_Witness ==
    /\ Done("validateInput")
    /\ call.input.t = "filled"
    /\ Len(ValueOf(call.input).str) = 1000000
    /\ Returned(ret)

\* The code units of the surrogate ranges
IsHighSurrogate(u) == u \in DOMAIN HexCode /\ HexCode[u] \in 55296..56319
IsLowSurrogate(u) == u \in DOMAIN HexCode /\ HexCode[u] \in 56320..57343

\* out, cut from text, ends in the high surrogate of a surrogate pair of text
EndsMidPair(text, out) ==
    /\ out # <<>>
    /\ Len(out) < Len(text)
    /\ IsHighSurrogate(out[Len(out)])
    /\ IsLowSurrogate(text[Len(out) + 1])

\* What the claim asks of out = safeTruncate(text, n)
TruncatedTo(text, n, out) ==
    IF Len(text) > n
    THEN Len(out) <= n /\ ~EndsMidPair(text, out)
    ELSE out = text

\* C3: for a text longer than n, safeTruncate(text, n) is at most n long and
\* does not end in the high surrogate of a surrogate pair of the text; a text
\* of length <= n is returned unchanged. So section() of 2000 emoji gives a
\* text of at most 3000 code units that does not end mid-character.
C3_SafeTruncate ==
    /\ Done("safeTruncate") => TruncatedTo(call.text, call.maxLength, ret.val.str)
    /\ (Done("section") /\ call.text.t = "string") =>
           /\ Returned(ret)
           /\ TruncatedTo(call.text.str, 3000, ret.val.text.text.str)
    /\ (Done("header") /\ call.text.t = "string") =>
           /\ Returned(ret)
           /\ TruncatedTo(call.text.str, 150, ret.val.text.text.str)
    /\ (Done("section") /\ call.text = Str(EmojiRun)) =>
           /\ Len(ret.val.text.text.str) <= 3000
           /\ ~IsHighSurrogate(ret.val.text.text.str[Len(ret.val.text.text.str)])

\* section() of a text whose code units 3000 and 3001 are a surrogate pair
C3_Witness ==
    /\ Done("section")
    /\ call.text.t = "string"
    /\ Len(call.text.str) > 3000
    /\ IsHighSurrogate(call.text.str[3000])
    /\ IsLowSurrogate(call.text.str[3001])
    /\ Returned(ret)
    /\ Len(ret.val.text.text.str) = 2999

\* C4: the blocks the builders return keep their ceilings: Section text 3000,
\* Header text 150, Image alt_text and title 2000, Video title and description
\* 200, Video author_name 50.
C4_FieldCeilings ==
    /\ (Done("section") /\ Returned(ret)) => Len(ret.val.text.text.str) <= 3000
    /\ (Done("header") /\ Returned(ret)) => Len(ret.val.text.text.str) <= 150
    /\ (Done("image") /\ Returned(ret)) =>
           /\ Len(ret.val.alt_text.str) <= 2000
           /\ ret.val.title # Undefined => Len(ret.val.title.text.str) <= 2000
    /\ (Done("video") /\ Returned(ret)) =>
           /\ Len(ret.val.title.text.str) <= 200
           /\ ret.val.description # Undefined => Len(ret.val.description.text.str) <= 200
           /\ ret.val.author_name # Undefined => Len(ret.val.author_name.str) <= 50

\* header() of a text longer than 150, and truncated to it
C4_Witness ==
    /\ Done("header")
    /\ call.text.t = "string"
    /\ Len(call.text.str) > 150
    /\ Returned(ret)
    /\ Len(ret.val.text.text.str) = 150

\* The texts of the text runs of a rich-text section
RunTexts(richSection) ==
    { Get(Get(richSection, "elements").arr[k], "text") :
        k \in 1..Len(Get(richSection, "elements").arr) }

\* The texts a table cell carries
CellTexts(cell) ==
    IF Get(cell, "type") = Str(RAW_TEXT)
    THEN { Get(cell, "text") }
    ELSE UNION { RunTexts(Get(cell, "elements").arr[k]) :
                   k \in 1..Len(Get(cell, "elements").arr) }

\* The cells of an array of arrays
Cells(rows) ==
    UNION { { rows.arr[i].arr[j] : j \in 1..Len(rows.arr[i].arr) } :
              i \in { k \in 1..Len(rows.arr) : rows.arr[k].t = "array" } }

\* C5: every text-bearing field of a built block is within the maximum text
\* length of 3000, the text of rich-text code, of the runs of a quote and of
\* a list, and of the cells of a table included, however long the input.
C5_EveryTextWithinCeiling ==
    /\ (Done("richTextCode") /\ Returned(ret)) =>
           Len(ret.val.elements[1].elements[1].text.str) <= 3000
    /\ (Done("richTextQuote") /\ Returned(ret)) =>
           \A k \in 1..Len(ret.val.elements[1].elements.arr) :
               Len(Get(ret.val.elements[1].elements.arr[k], "text").str) <= 3000
    /\ (Done("richTextList") /\ Returned(ret)) =>
           \A k \in 1..Len(ret.val.elements[1].elements.arr) :
               \A text \in RunTexts(ret.val.elements[1].elements.arr[k]) :
                   Len(text.str) <= 3000
    /\ (Done("table") /\ Returned(ret)) =>
           \A cell \in Cells(ret.val.rows) :
               \A text \in CellTexts(cell) : Len(text.str) <= 3000

\* C6 as it is stated: when the blocks are more than the ceiling the
\* transform fails with an error of another class and code than
\* ValidationError / VALIDATION_ERROR.
C6_LimitErrorKind ==
    (Counted /\ Len(blocks) > 50) =>
        /\ Threw(ret)
        /\ ret.err.name # "ValidationError"
        /\ ret.err.code # "VALIDATION_ERROR"

\* C6, amended: when the blocks are more than the ceiling the transform
\* fails with a ValidationError, code VALIDATION_ERROR, whose message
\* mentions "Block count"; the class and the code are those of the errors
\* for malformed input, and validateBlockCount throws no other error.
C6_BlockCountIsValidationError ==
    /\ (Counted /\ Len(blocks) > 50) =>
           /\ IsValidationError(ret)
           /\ Mentions(ret.err.message, <<"Block", "count">>)
    /\ (Done("validateBlockCount") /\ Threw(ret)) =>
           /\ IsValidationError(ret)
           /\ Mentions(ret.err.message, <<"Block", "count">>)

\* The transform fails on a document of 51 blocks
C6_Witness ==
    /\ Counted
    /\ Len(blocks) = 51
    /\ Threw(ret)
    /\ ret.err.name = "ValidationError"

IsRecursionError(r) ==
    /\ IsValidationError(r)
    /\ Mentions(r.err.message, <<"Recursion", "depth">>)

StartsAbsolute(url) ==
    \E prefix \in { <<"h", "t", "t", "p", ":", "/", "/">>,
                    <<"h", "t", "t", "p", "s", ":", "/", "/">>,
                    <<"d", "a", "t", "a", ":">> } : StartsWith(url.str, prefix)

NonEmptyString(v) == v.t = "string" /\ v.str # <<>>

\* What the claim asks of a builder's outcome r for the URL url it is given,
\* where others tells that the builder's other arguments are well-formed and
\* built gives the URL in the block: an absolute URL that validateUrl refuses
\* raises ValidationError; another string that is not absolute is in the block
UrlOutcome(url, others, r, built) ==
    NonEmptyString(url) =>
        /\ (StartsAbsolute(url) /\ ~validateUrl(url)) => IsValidationError(r)
        /\ (~StartsAbsolute(url) /\ others) => (Returned(r) /\ built = url)

\* The options of video are those of BaseVideo but for the option that v is
OnlyVaries(options, name, v) == options = [BaseVideo EXCEPT ![name] = v]

\* C8: for image's url and video's videoUrl, thumbnailUrl, titleUrl and
\* providerIconUrl, an absolute URL (http://, https://, data:) that
\* validateUrl refuses raises ValidationError and no block is returned; a
\* relative or unrecognized-scheme string is accepted and is unchanged in
\* the block.
C8_UrlValidation ==
    /\ Done("image") =>
           UrlOutcome(call.url, call.altText.t = "string", ret,
                      IF Returned(ret) THEN ret.val.image_url ELSE Undefined)
    /\ Done("video") =>
           /\ UrlOutcome(call.options.videoUrl,
                         OnlyVaries(call.options, "videoUrl", call.options.videoUrl), ret,
                         IF Returned(ret) THEN ret.val.video_url ELSE Undefined)
           /\ UrlOutcome(call.options.thumbnailUrl,
                         OnlyVaries(call.options, "thumbnailUrl", call.options.thumbnailUrl), ret,
                         IF Returned(ret) THEN ret.val.thumbnail_url ELSE Undefined)
           /\ UrlOutcome(call.options.titleUrl,
                         OnlyVaries(call.options, "titleUrl", call.options.titleUrl), ret,
                         IF Returned(ret) THEN ret.val.title_url ELSE Undefined)
           /\ UrlOutcome(call.options.providerIconUrl,
                         OnlyVaries(call.options, "providerIconUrl", call.options.providerIconUrl),
                         ret,
                         IF Returned(ret) THEN ret.val.provider_icon_url ELSE Undefined)

\* video() refuses a provider icon URL of the data: scheme that is no image
C8_Witness ==
    /\ Done("video")
    /\ NonEmptyString(call.options.providerIconUrl)
    /\ StartsWith(call.options.providerIconUrl.str, <<"d", "a", "t", "a", ":">>)
    /\ ~validateUrl(call.options.providerIconUrl)
    /\ IsValidationError(ret)
    /\ Mentions(ret.err.message, <<"Invalid", "provider", "icon", "URL:">>)

\* C9: table() raises ValidationError when the rows are more than 100, when
\* a row has more than 20 cells, when the column settings are more than 20
\* and when there is no row; 100 rows of 20 cells with 20 column settings
\* are accepted. So a Table block has 1..100 rows, at most 20 cells in a
\* row and at most 20 column settings.
C9_TableLimits ==
    Done("table") =>
        /\ (call.rows.t = "array" /\ Len(call.rows.arr) > 100) => IsValidationError(ret)
        /\ (call.rows.t = "array" /\ Len(call.rows.arr) = 0) => IsValidationError(ret)
        /\ (call.rows.t = "array" /\ \E i \in 1..Len(call.rows.arr) :
                /\ call.rows.arr[i].t = "array"
                /\ Len(call.rows.arr[i].arr) > 20) => IsValidationError(ret)
        /\ (call.columnSettings.t = "array" /\ Len(call.columnSettings.arr) > 20) =>
               IsValidationError(ret)
        /\ (/\ call.rows = Arr(UniformRows(100, 20, RawCell(<<"a">>)))
            /\ call.columnSettings = Arr([k \in 1..20 |-> Obj([align |-> Str(ALIGN_CENTER)])])) =>
               Returned(ret)
        /\ Returned(ret) =>
               /\ ret.val.rows = call.rows
               /\ Len(ret.val.rows.arr) \in 1..100
               /\ \A i \in 1..Len(ret.val.rows.arr) : Len(ret.val.rows.arr[i].arr) <= 20
               /\ ret.val.column_settings = call.columnSettings
               /\ ret.val.column_settings.t = "array" =>
                      Len(ret.val.column_settings.arr) <= 20

\* A Table block of 100 rows of 20 cells with 20 column settings
C9_Witness ==
    /\ Done("table")
    /\ Returned(ret)
    /\ Len(ret.val.rows.arr) = 100
    /\ \A i \in 1..100 : Len(ret.val.rows.arr[i].arr) = 20
    /\ ret.val.column_settings.t = "array"
    /\ Len(ret.val.column_settings.arr) = 20

\* A raw_text cell with a string text
RawShape(cell) ==
    /\ cell.t = "object"
    /\ Get(cell, "type") = Str(RAW_TEXT)
    /\ Get(cell, "text").t = "string"

\* A rich_text cell with an elements array
RichShape(cell) ==
    /\ cell.t = "object"
    /\ Get(cell, "type") = Str(RICH_TEXT)
    /\ Get(cell, "elements").t = "array"

\* C10 as it is stated: table() accepts a cell only if it is a raw_text cell
\* with a string text or a rich_text cell with a non-empty elements
\* sequence; any other cell raises ValidationError.
C10_NonEmptyElements ==
    (Done("table") /\ call.rows.t = "array") =>
        /\ \A cell \in Cells(call.rows) :
               \/ RawShape(cell)
               \/ RichShape(cell) /\ Get(cell, "elements").arr # <<>>
               \/ IsValidationError(ret)
        /\ Returned(ret) \/ IsValidationError(ret)

\* C10, amended: table() accepts a cell only if it is a raw_text cell with a
\* string text or a rich_text cell with an elements array, which may be
\* empty; a cell that is no object, has another tag, is raw_text without a
\* string text or rich_text without an elements array raises
\* ValidationError, and a rich_text cell with no element does not.
C10_CellShapes ==
    (Done("table") /\ call.rows.t = "array") =>
        /\ \A cell \in Cells(call.rows) :
               RawShape(cell) \/ RichShape(cell) \/ IsValidationError(ret)
        /\ Returned(ret) \/ IsValidationError(ret)
        /\ (/\ Len(call.rows.arr) \in 1..100
            /\ \A i \in 1..Len(call.rows.arr) :
                   /\ call.rows.arr[i].t = "array"
                   /\ Len(call.rows.arr[i].arr) <= 20
            /\ \A cell \in Cells(call.rows) : RawShape(cell) \/ RichShape(cell)
            /\ call.columnSettings = Undefined) => Returned(ret)

\* A Table block with a rich_text cell that has no element
C10_Witness ==
    /\ Done("table")
    /\ Returned(ret)
    /\ RichCellEmpty \in Cells(ret.val.rows)

(***************************************************************************)
(* Paragraphs.                                                             *)
(***************************************************************************)
\* A paragraph whose only content is one text node
PlainParagraph(node) ==
    /\ node.kind = "Paragraph"
    /\ Len(node.children) = 1
    /\ node.children[1].kind = "Text"

\* A paragraph of text and styled nodes, without an image
TextParagraph(node) ==
    /\ node.kind = "Paragraph"
    /\ \A j \in 1..Len(node.children) :
           node.children[j].kind \in {"Text", "Strong", "Emphasis", "Strike"}

\* The document is a run of k >= 1 adjacent plain paragraphs that, joined by
\* newlines, stay within the text ceiling even with every character escaped
RunOfPlainParagraphs ==
    /\ doc # <<>>
    /\ \A i \in 1..Len(doc) :
           /\ PlainParagraph(doc[i])
           /\ Len(doc) * (5 * Len(doc[i].children[1].text) + 1) <= MAX_TEXT_LENGTH

\* A Section block
IsSection(block) ==
    /\ DOMAIN block = {"type", "text"}
    /\ block.type = "section"
    /\ block.text.type = "mrkdwn"

\* The parser has walked all of the tokens
Parsed == call.fn = "markdownToBlocks" /\ pc \in {"count", "done"} /\ tokens = <<>> /\ stack = <<>>

BlockTypeOf(kind) ==
    CASE kind \in {"Paragraph", "List", "Blockquote", "CodeBlock"} -> "section"
      [] kind = "Heading" -> "header"
      [] kind = "ThematicBreak" -> "divider"
      [] kind \in {"Table", "HtmlTable"} -> "table"
      [] kind = "HtmlImage" -> "image"

\* A token that is rendered into exactly one block: a paragraph of text
\* that is one node or is far shorter than the text ceiling, an HTML image
\* whose URL validates, an HTML table with a row, any other node
OneBlock(node) ==
    CASE node.kind = "Paragraph" ->
             /\ TextParagraph(node)
             /\ \/ Len(node.children) = 1
                \/ nesting = 0 /\ 10 * Len(plainText(node.children)) <= MAX_TEXT_LENGTH
      [] node.kind = "HtmlImage" -> validateUrl(Str(node.href))
      [] node.kind = "HtmlTable" -> node.rows # <<>>
      [] OTHER -> TRUE

\* s is a proper prefix of t
Extends(s, t) == Len(s) < Len(t) /\ SubSeq(t, 1, Len(s)) = s

Failed == body # Lexed \/ tokens # <<>> \/ Len(blocks) > BLOCK_LIMIT

\* C13: a completed call of markdownToBlocks has either returned or thrown.
\* It returns only when nothing failed, and then it returns all the blocks of
\* the whole input; when the validation of the input, a builder, the
\* recursion ceiling or the block count failed, it throws, and the outcome
\* carries the error and none of the blocks emitted before the failure.
C13_NoPartialResult ==
    Done("markdownToBlocks") =>
        /\ Returned(ret) \/ Threw(ret)
        /\ Threw(ret) <=> Failed
        /\ Returned(ret) =>
               /\ DOMAIN ret = {"st", "val"}
               /\ ret.val = Arr(blocks)
               /\ stack = <<>>
               /\ ~acc.open
               /\ Len(blocks) >= Cardinality({ i \in 1..Len(doc) : OneBlock(doc[i]) })
        /\ Threw(ret) =>
               /\ DOMAIN ret = {"st", "err"}
               /\ DOMAIN ret.err = {"name", "code", "message"}

C13_Witness ==
    /\ Done("markdownToBlocks")
    /\ Threw(ret)
    /\ Len(blocks) = 1
    /\ tokens # <<>>
    /\ Head(tokens).kind = "Table"

(***************************************************************************)
(* Graceful degradation.                                                   *)
(***************************************************************************)
\* The images of the document, as pairs of positions: the HTML images at the
\* top level and the images that are children of paragraphs
ImagesOf(d) ==
    { <<i, 0>> : i \in { k \in 1..Len(d) : d[k].kind = "HtmlImage" } }
    \cup { ij \in (1..Len(d)) \X (1..3) :
              /\ d[ij[1]].kind = "Paragraph"
              /\ ij[2] <= Len(d[ij[1]].children)
              /\ d[ij[1]].children[ij[2]].kind = "Image" }

ImageAt(d, ij) == IF ij[2] = 0 THEN d[ij[1]] ELSE d[ij[1]].children[ij[2]]

\* A top-level node that is nothing but images whose URLs fail validation
OnlyBadImages(node) ==
    \/ node.kind = "HtmlImage" /\ node.href # GoodUrl.str
    \/ /\ node.kind = "Paragraph"
       /\ \A j \in 1..Len(node.children) :
              node.children[j].kind = "Image" /\ node.children[j].href # GoodUrl.str

\* The paragraph of the text a and a link to url with a styled label
LinkParagraph(url) ==
    Paragraph(<<Text(<<"a">>), Link(url, <<Strong(<<Text(<<"l">>)>>), Text(<<"&">>)>>)>>)

\* What is degraded and not reported: an image whose URL fails validation
\* gives no block, and the same number of Image blocks is emitted as the
\* document has images with the valid URL; a link whose URL fails validation
\* is its label, a link with a valid URL is <url|label>; a short document
\* without a table is transformed without an error.
Degrades ==
    /\ Parsed =>
           /\ Cardinality({ i \in 1..Len(blocks) : blocks[i].type = "image" })
                  = Cardinality({ ij \in ImagesOf(doc) : ImageAt(doc, ij).href = GoodUrl.str })
           /\ \A i \in 1..Len(blocks) :
                  blocks[i].type = "image" => blocks[i].image_url = GoodUrl
           /\ \A url \in DocUrls :
                  (doc # <<>> /\ doc[Len(doc)] = LinkParagraph(url)) =>
                      /\ blocks # <<>>
                      /\ blocks[Len(blocks)].type = "section"
                      /\ blocks[Len(blocks)].text.text.str =
                             IF url = GoodUrl.str
                             THEN <<"a", "<">> \o url \o <<"|", "*", "l", "*", "&", "a", "m", "p", ";", ">", " ">>
                             ELSE <<"a", "*", "l", "*", "&", "a", "m", "p", ";">>
    /\ (Done("markdownToBlocks") /\ body = Lexed /\ nesting = 0 /\ Len(doc) <= 2
           /\ \A i \in 1..Len(doc) : doc[i].kind \notin {"Table", "HtmlTable"}) =>
           Returned(ret) /\ tokens = <<>>

\* C14 as it is stated: the invalid image and the invalid link degrade, and a
\* node with an invalid image is the only one that yields no block when the
\* call returns.
C14_OnlyImagesAndLinks ==
    /\ Degrades
    /\ (Counted /\ Returned(ret)) =>
           Len(blocks) >= Cardinality({ i \in 1..Len(doc) : ~OnlyBadImages(doc[i]) })

\* C14, amended: the invalid image and the invalid link degrade, and the
\* nodes that yield no block when the call returns are those with an invalid
\* image and the HTML table fragments without any row.
C14_DegradesGracefully ==
    /\ Degrades
    /\ (Counted /\ Returned(ret)) =>
           Len(blocks) >= Cardinality({ i \in 1..Len(doc) :
                                         /\ ~OnlyBadImages(doc[i])
                                         /\ ~(doc[i].kind = "HtmlTable" /\ doc[i].rows = <<>>) })

C14_Witness ==
    /\ Counted
    /\ Returned(ret)
    /\ Len(doc) = 2
    /\ doc[1].kind = "HtmlImage" /\ doc[1].href = BadUrl
    /\ doc[2] = LinkParagraph(BadUrl)
    /\ Len(blocks) = 1
    /\ blocks[1].text.text.str = <<"a", "*", "l", "*", "&", "a", "m", "p", ";">>

(***************************************************************************)
(* Tables.                                                                 *)
(***************************************************************************)
\* An HTML table fragment without any row
EmptyHtmlTable(node) == node.kind = "HtmlTable" /\ node.rows = <<>>

\* C15: table() throws a ValidationError for no rows, yet an HTML table
\* fragment without any row is skipped: the step over it emits no block and
\* goes on to the next token, the call does not fail at it, and when the walk
\* has ended there are as many Table blocks as tables with a row; the
\* document that is the empty fragment alone returns no block.
C15_EmptyHtmlTableSkipped ==
    /\ [](/\ (Done("table") /\ call.rows = Arr(<<>>)) =>
                 /\ IsValidationError(ret)
                 /\ Mentions(ret.err.message, <<"at", "least", "one", "row">>)
          /\ (Done("markdownToBlocks") /\ tokens # <<>>) => ~EmptyHtmlTable(Head(tokens))
          /\ Parsed =>
                 Cardinality({ i \in 1..Len(blocks) : blocks[i].type = "table" })
                     = Cardinality({ i \in 1..Len(doc) :
                                       /\ doc[i].kind \in {"Table", "HtmlTable"}
                                       /\ ~EmptyHtmlTable(doc[i]) })
          /\ (Counted /\ doc = <<HtmlTable(<<>>)>>) => ret = Return(Arr(<<>>)))
    /\ [][(pc = "parse" /\ tokens # <<>> /\ EmptyHtmlTable(Head(tokens))) =>
              /\ tokens' = Tail(tokens)
              /\ UNCHANGED <<pc, ret, blocks, acc>>]_vars

C15_Witness ==
    /\ Counted
    /\ Returned(ret)
    /\ Len(doc) = 3
    /\ EmptyHtmlTable(doc[2])
    /\ Len(blocks) = 2
    /\ blocks[2].text.text = Str(<<"b">>)

(***************************************************************************)
(* Escaping.                                                               *)
(***************************************************************************)
\* The entity of a character that is escaped
Entity(c) ==
    CASE c = "&" -> <<"&", "a", "m", "p", ";">>
      [] c = "<" -> <<"&", "l", "t", ";">>
      [] c = ">" -> <<"&", "g", "t", ";">>

\* Where character i of text begins in the escaped text: every & before it
\* takes four more places, every < and > three more
PlaceOf(text, i) ==
    i + 4 * Cardinality({ j \in 1..(i - 1) : text[j] = "&" })
      + 3 * Cardinality({ j \in 1..(i - 1) : text[j] \in {"<", ">"} })

\* out is text with &, < and > replaced by their entities and every other
\* character in its place, in the same order
EscapedAs(text, out) ==
    /\ Len(out) = PlaceOf(text, Len(text) + 1) - 1
    /\ \A i \in 1..Len(text) :
           IF text[i] \in {"&", "<", ">"}
           THEN SubSeq(out, PlaceOf(text, i), PlaceOf(text, i + 1) - 1) = Entity(text[i])
           ELSE out[PlaceOf(text, i)] = text[i]

\* C16: the Section of a paragraph of plain text holds the text with exactly
\* &, < and > replaced by &amp;, &lt; and &gt;, and every other character,
\* the single and the double quote among them, as it is and in its place.
C16_EscapesThree ==
    (Parsed /\ Len(doc) = 1 /\ PlainParagraph(doc[1])
        /\ 5 * Len(doc[1].children[1].text) <= MAX_TEXT_LENGTH) =>
        /\ Len(blocks) = 1
        /\ IsSection(blocks[1])
        /\ EscapedAs(doc[1].children[1].text, blocks[1].text.text.str)

C16_Witness ==
    /\ Counted
    /\ Returned(ret)
    /\ doc = <<Paragraph(<<Text(<<"<", ">", "&", "'", "\"", "\"", "'", "&", ">", "<">>)>>)>>
    /\ blocks[1].text.text.str =
           <<"&", "l", "t", ";", "&", "g", "t", ";", "&", "a", "m", "p", ";", "'", "\"", "\"", "'",
             "&", "a", "m", "p", ";", "&", "g", "t", ";", "&", "l", "t", ";">>

\* The alignments of the columns of a table token
AlignmentsOf(node) ==
    IF node.kind = "Table" THEN node.align
    ELSE [j \in 1..Len(node.rows[1]) |-> node.rows[1][j].align]

\* The align values of the column settings of a Table block, in order
AlignsIn(block) ==
    IF block.column_settings = Undefined THEN <<>>
    ELSE [k \in 1..Len(block.column_settings.arr) |-> block.column_settings.arr[k].obj.align.str]

\* The centered and right-aligned ones of the alignments of a token, as the
\* align values of their settings
IsCenterOrRight(a) == a \in {"center", "right"}
CenterRight(aligns) ==
    [k \in 1..Len(SelectSeq(aligns, IsCenterOrRight)) |->
        alignValue(SelectSeq(aligns, IsCenterOrRight)[k]).str]

\* The centered and right-aligned ones of the align values of a block
IsCenterOrRightValue(v) == v \in {ALIGN_CENTER, ALIGN_RIGHT}

\* Block i is the Table block of token i, whose columns settings are those
\* the claim describes
SettingsFromLaterColumns(i) ==
    LET aligns == AlignmentsOf(doc[i])
        block == blocks[i]
    IN  /\ block.type = "table"
        /\ Len(AlignsIn(block)) <= Len(aligns) - 1
        /\ \A k \in 1..Len(AlignsIn(block)) :
               AlignsIn(block)[k] \in {ALIGN_LEFT, ALIGN_CENTER, ALIGN_RIGHT}
        /\ SelectSeq(AlignsIn(block), IsCenterOrRightValue) = CenterRight(Tail(aligns))
        /\ (\A j \in 2..Len(aligns) : aligns[j] = "none") => block.column_settings = Undefined
        /\ aligns = <<"left", "center", "right">> => AlignsIn(block) = <<ALIGN_CENTER, ALIGN_RIGHT>>
        /\ \A first \in {"none", "left", "center", "right"} :
               columnSettingsOf([aligns EXCEPT ![1] = first]) = block.column_settings

\* C17: the column settings of a built table have no entry for the first
\* column. They hold, in column order, a setting for every centered or
\* right-aligned column from the second on, so (left, center, right) gives
\* [center, right]; they do not change with the alignment of the first
\* column; and this is so for a Markdown table and for an HTML table.
C17_NoFirstColumnSetting ==
    (Parsed /\ Len(blocks) = Len(doc)
        /\ \A i \in 1..Len(doc) : doc[i].kind \in {"Table", "HtmlTable"} /\ doc[i].rows # <<>>) =>
        \A i \in 1..Len(doc) : SettingsFromLaterColumns(i)

C17_Witness ==
    /\ Counted
    /\ Returned(ret)
    /\ Len(doc) = 2
    /\ doc[1].kind = "Table" /\ doc[1].align = <<"left", "center", "right">>
    /\ doc[2].kind = "HtmlTable" /\ AlignmentsOf(doc[2]) = <<"left", "center", "right">>
    /\ AlignsIn(blocks[1]) = <<ALIGN_CENTER, ALIGN_RIGHT>>
    /\ AlignsIn(blocks[2]) = <<ALIGN_CENTER, ALIGN_RIGHT>>

\* The document is a Markdown table followed by the HTML table of the same
\* logical rows and the same column alignment
TableAndItsHtml ==
    /\ Len(doc) = 2
    /\ doc[1].kind = "Table"
    /\ doc[2] = HtmlOf(doc[1].rows, doc[1].align)

\* Every cell of the table token holds plain text only
PlainCells(node) ==
    \A i \in 1..Len(node.rows) : \A j \in 1..Len(node.rows[i]) :
        \A k \in 1..Len(node.rows[i][j]) : node.rows[i][j][k].kind = "Text"

SameTableBlocks ==
    /\ Len(blocks) = 2
    /\ blocks[1].type = "table" /\ blocks[2].type = "table"
    /\ blocks[1].rows = blocks[2].rows
    /\ blocks[1].column_settings = blocks[2].column_settings

\* C18 as it is stated: a Markdown table and the HTML table of the same
\* logical rows and alignment give Table blocks with the same rows and the
\* same column settings.
C18_SameTableBlocks ==
    (Parsed /\ TableAndItsHtml) => SameTableBlocks

\* C18: a Markdown table and the HTML table of the same logical rows and
\* alignment, whose cells hold plain text only, give Table blocks with the
\* same rows and the same column settings. (The formatting of an HTML cell is
\* dropped, that of a Markdown cell makes a rich-text cell.)
C18_SamePlainTableBlocks ==
    (Parsed /\ TableAndItsHtml /\ PlainCells(doc[1])) => SameTableBlocks

C18_Witness ==
    /\ Counted
    /\ Returned(ret)
    /\ TableAndItsHtml
    /\ PlainCells(doc[1])
    /\ Len(doc[1].rows) = 2
    /\ doc[1].align = <<"center", "none", "right">>
    /\ SameTableBlocks
    /\ blocks[2].column_settings # Undefined

\* The numerals of the numbers of the items of the lists
Numeral ==
    (0 :> <<"0">>) @@ (1 :> <<"1">>) @@ (2 :> <<"2">>) @@ (3 :> <<"3">>) @@ (4 :> <<"4">>)
    @@ (8 :> <<"8">>) @@ (9 :> <<"9">>) @@ (10 :> <<"1", "0">>) @@ (11 :> <<"1", "1">>)
    @@ (12 :> <<"1", "2">>) @@ (98 :> <<"9", "8">>) @@ (99 :> <<"9", "9">>)
    @@ (100 :> <<"1", "0", "0">>) @@ (101 :> <<"1", "0", "1">>) @@ (102 :> <<"1", "0", "2">>)

\* Where the lines of a text start: at its first character and after every
\* newline
LineStarts(text) ==
    LET IsStart(i) == i = 1 \/ text[i - 1] = "\n"
    IN  SelectSeq([i \in 1..Len(text) |-> i], IsStart)

LineStartsWith(text, from, prefix) ==
    /\ from + Len(prefix) - 1 <= Len(text)
    /\ SubSeq(text, from, from + Len(prefix) - 1) = prefix

\* The document is one list without checkbox items, and its Section
ListAlone ==
    /\ Len(doc) = 1
    /\ doc[1].kind = "List"
    /\ \A k \in 1..Len(doc[1].children) : doc[1].children[k].checked = "none"
ListText == blocks[1].text.text.str

\* C19: the Section of an ordered list with start N has one line for each
\* item, and the line of the item at position k (from 0) starts with the
\* numeral of N + k, a full stop and a space; the lines of an unordered list
\* start with the bullet and a space.
C19_ItemPrefixes ==
    (Parsed /\ ListAlone) =>
        /\ Len(blocks) = 1
        /\ IsSection(blocks[1])
        /\ Len(LineStarts(ListText)) = Len(doc[1].children)
        /\ \A k \in 0..(Len(doc[1].children) - 1) :
               LineStartsWith(ListText, LineStarts(ListText)[k + 1],
                          IF doc[1].ordered
                          THEN Numeral[doc[1].start + k] \o <<".", " ">>
                          ELSE <<"2022", " ">>)

C19_Witness ==
    /\ Counted
    /\ Returned(ret)
    /\ ListAlone
    /\ doc[1].ordered
    /\ doc[1].start = 9
    /\ Len(doc[1].children) = 3
    /\ ListText = <<"9", ".", " ", "a", "\n", "1", "0", ".", " ", "b", "\n", "1", "1", ".", " ", "c">>

\* The document is one list of items of one letter each, rendered without a
\* checkboxPrefix option
DefaultCheckboxList ==
    /\ call.checkboxPrefix = "none"
    /\ Len(doc) = 1
    /\ doc[1].kind = "List"
    /\ ~doc[1].ordered
    /\ \A k \in 1..Len(doc[1].children) :
           /\ Len(doc[1].children[k].children) = 1
           /\ doc[1].children[k].children[1].kind = "Text"
           /\ Len(doc[1].children[k].children[1].text) = 1

\* What the line of item k (from 1) starts with, before the item's letter
LinePrefix(k) ==
    SubSeq(ListText, LineStarts(ListText)[k],
           (IF k < Len(LineStarts(ListText))
            THEN LineStarts(ListText)[k + 1] - 2
            ELSE Len(ListText)) - 1)

\* C20: without a checkboxPrefix option, the prefix of a checked item and the
\* prefix of an unchecked item are never the same.
C20_DefaultPrefixTellsChecked ==
    (Parsed /\ DefaultCheckboxList /\ Len(blocks) = 1) =>
        \A i, j \in 1..Len(doc[1].children) :
            (doc[1].children[i].checked = "checked" /\ doc[1].children[j].checked = "unchecked") =>
                LinePrefix(i) # LinePrefix(j)

\* The calls completed so far, the running one included once it is done
Completed == sched.log \cup (IF pc = "done" THEN {Entry} ELSE {})

SameInput(e, f) == e.body = f.body /\ e.doc = f.doc /\ e.option = f.option

NoString(v) == v.t # "string"
NoStringOrEmpty(v) == v.t # "string" \/ v.str = <<>>

\* The value is no array, or an array without elements
NoArrayOrEmpty(v) == v.t # "array" \/ v.arr = <<>>

\* C22: a builder called with a wrongly typed or an empty required argument
\* throws a ValidationError and builds nothing: section and header for a
\* text that is no string, image for a URL that is no string or empty and
\* for an alt text that is no string, video for an altText, title,
\* thumbnailUrl or videoUrl that is no string or empty, file for an external
\* id that is no string or empty, richTextList and richTextQuote for what is
\* no array or an array without elements.
C22_BuildersRejectBadArguments ==
    /\ (Done("section") /\ NoString(call.text)) => IsValidationError(ret)
    /\ (Done("header") /\ NoString(call.text)) => IsValidationError(ret)
    /\ (Done("image") /\ (NoStringOrEmpty(call.url) \/ NoString(call.altText))) =>
           IsValidationError(ret)
    /\ (Done("video") /\ \E option \in {"altText", "title", "thumbnailUrl", "videoUrl"} :
                             NoStringOrEmpty(call.options[option])) =>
           IsValidationError(ret)
    /\ (Done("file") /\ NoStringOrEmpty(call.externalId)) => IsValidationError(ret)
    /\ (Done("richTextList") /\ NoArrayOrEmpty(call.items)) => IsValidationError(ret)
    /\ (Done("richTextQuote") /\ NoArrayOrEmpty(call.elements)) => IsValidationError(ret)

C22_Witness ==
    /\ Done("richTextQuote")
    /\ call.elements = Arr(<<>>)
    /\ IsValidationError(ret)

\* The characters a URL may hold after its scheme
AllowedUrlChars ==
    { "a", "b", "c", "d", "e", "f", "g", "h", "i", "j", "k", "l", "m", "n", "o", "p", "q",
      "r", "s", "t", "u", "v", "w", "x", "y", "z",
      "A", "B", "C", "D", "E", "F", "G", "H", "I", "J", "K", "L", "M", "N", "O", "P", "Q",
      "R", "S", "T", "U", "V", "W", "X", "Y", "Z",
      "0", "1", "2", "3", "4", "5", "6", "7", "8", "9",
      "-", ".", "_", "~", ":", "/", "?", "#", "[", "]", "@", "!", "$", "&", "'", "(", ")",
      "*", "+", ",", ";", "=" }

\* The three kinds of URL that are acceptable
RelativeUrl(u) == Len(u) >= 1 /\ u[1] \in {"/", "."}
HttpUrl(u) ==
    \E n \in {7, 8} :
        /\ Len(u) > n
        /\ SubSeq(u, 1, n) = (IF n = 7 THEN <<"h", "t", "t", "p", ":", "/", "/">>
                               ELSE <<"h", "t", "t", "p", "s", ":", "/", "/">>)
        /\ \A i \in (n + 1)..Len(u) : u[i] \in AllowedUrlChars
ImageDataUrl(u) ==
    Len(u) >= 11 /\ SubSeq(u, 1, 11) = <<"d", "a", "t", "a", ":", "i", "m", "a", "g", "e", "/">>

AcceptableUrl(url) ==
    url.t = "string" /\ (RelativeUrl(url.str) \/ HttpUrl(url.str) \/ ImageDataUrl(url.str))

\* C23: validateUrl returns true exactly for a string that starts with '/'
\* or '.', that is http:// or https:// followed by one or more characters,
\* all of them allowed ones, or that starts with data:image/; it returns
\* false for null, undefined, the empty string, a data: URI of another media
\* type, 'http://' alone and every other scheme.
C23_UrlClasses ==
    Done("validateUrl") =>
        /\ ret = Return([t |-> "boolean", bool |-> AcceptableUrl(call.url)])
        /\ call.url \in { Null, Undefined, Str(<<>>),
                           Str(<<"d", "a", "t", "a", ":", "t", "e", "x", "t", "/", "a">>),
                           Str(<<"h", "t", "t", "p", ":", "/", "/">>),
                           Str(<<"h", "t", "t", "p", "s", ":", "/", "/">>),
                           Str(<<"f", "t", "p", ":", "/", "/", "a">>),
                           Str(<<"H", "T", "T", "P", ":", "/", "/", "a">>),
                           Str(<<"a">>) } =>
               ret = Return([t |-> "boolean", bool |-> FALSE])

\* A data: URI of a text is rejected
C23_Witness ==
    /\ Done("validateUrl")
    /\ call.url = Str(<<"d", "a", "t", "a", ":", "t", "e", "x", "t", "/", "a">>)
    /\ ret = Return([t |-> "boolean", bool |-> FALSE])

\* The align value of a column setting is absent, or one of the three
AlignAbsentOrValid(setting) ==
    \/ setting.t \in {"undefined", "null"}
    \/ setting.t = "object" /\ "align" \notin DOMAIN setting.obj
    \/ setting.t = "object" /\ setting.obj.align = Undefined
    \/ setting.t = "object" /\ setting.obj.align \in
           { Str(<<"l", "e", "f", "t">>), Str(<<"c", "e", "n", "t", "e", "r">>),
             Str(<<"r", "i", "g", "h", "t">>) }

\* C24: table() throws a ValidationError when a column setting has an align
\* value that is not left, center or right, so every column setting of a
\* Table block that was built has its align absent or one of the three.
C24_AlignValidated ==
    /\ (Done("table") /\ call.columnSettings.t = "array"
           /\ \E k \in 1..Len(call.columnSettings.arr) :
                  ~AlignAbsentOrValid(call.columnSettings.arr[k])) =>
           IsValidationError(ret)
    /\ (Done("table") /\ Returned(ret) /\ ret.val.column_settings.t = "array") =>
           \A k \in 1..Len(ret.val.column_settings.arr) :
               AlignAbsentOrValid(ret.val.column_settings.arr[k])

\* A cell that is neither a raw_text cell with a string text nor a rich_text
\* cell with an elements array
BadCell(cell) == ~RawShape(cell) /\ ~RichShape(cell)

\* The rows of the table that fail a check, and the cells of a row that do
BadCells(row) == { j \in 1..Len(row.arr) : BadCell(row.arr[j]) }
BadRows(rows) ==
    { i \in 1..Len(rows.arr) :
        \/ rows.arr[i].t # "array"
        \/ Len(rows.arr[i].arr) > 20
        \/ BadCells(rows.arr[i]) # {} }
Least(set) == CHOOSE k \in set : \A m \in set : k <= m

\* The error reports the first failed check of the row at index i (from 0)
ReportsRow(message, row, i) ==
    IF row.t # "array"
    THEN message = <<"Table", "row", ToString(i), "must", "be", "an", "array">>
    ELSE IF Len(row.arr) > 20
    THEN SubSeq(message, 1, 4) = <<"Table", "row", ToString(i), "cannot">>
    ELSE SubSeq(message, 1, 7) =
             <<"Table", "cell", "at", "row", ToString(i) \o ",", "column",
               ToString(Least(BadCells(row)) - 1)>>

\* C25: table() reports the first violation in a fixed order: rows is no
\* array, there is no row, there are more than 100 rows, then row by row
\* that the row is no array, that it has more than 20 cells, and its first
\* malformed cell, and only then the column settings. So more than 100 rows
\* are reported as such even when rows or cells are malformed too, and an
\* error of the column settings is reported only when every row passes.
C25_TableCheckOrder ==
    Done("table") =>
        /\ call.rows.t # "array" =>
               /\ IsValidationError(ret)
               /\ ret.err.message = <<"Table", "rows", "must", "be", "an", "array">>
        /\ (call.rows.t = "array" /\ Len(call.rows.arr) = 0) =>
               /\ IsValidationError(ret)
               /\ Mentions(ret.err.message, <<"at", "least", "one", "row">>)
        /\ (call.rows.t = "array" /\ Len(call.rows.arr) > 100) =>
               /\ IsValidationError(ret)
               /\ Mentions(ret.err.message, <<"more", "than", "100", "rows">>)
        /\ (call.rows.t = "array" /\ Len(call.rows.arr) \in 1..100
               /\ BadRows(call.rows) # {}) =>
               /\ IsValidationError(ret)
               /\ ReportsRow(ret.err.message,
                             call.rows.arr[Least(BadRows(call.rows))],
                             Least(BadRows(call.rows)) - 1)
        /\ (Threw(ret) /\ ret.err.message[1] \in {"Column", "Cannot"}) =>
               /\ call.rows.t = "array"
               /\ Len(call.rows.arr) \in 1..100
               /\ BadRows(call.rows) = {}

\* 101 rows, the last with a malformed cell: the number of rows is reported
C25_Witness ==
    /\ Done("table")
    /\ call.rows.t = "array"
    /\ Len(call.rows.arr) = 101
    /\ BadRows(call.rows) # {}
    /\ IsValidationError(ret)
    /\ Mentions(ret.err.message, <<"more", "than", "100", "rows">>)

\* out is the text's first Len(out) code units
IsPrefix(out, text) == Len(out) <= Len(text) /\ out = SubSeq(text, 1, Len(out))

\* C26: safeTruncate(t, n) is a prefix of t, of length n or n - 1 when t is
\* longer than n, and truncating it again to n changes nothing.
C26_TruncateIdempotent ==
    Done("safeTruncate") =>
        /\ Returned(ret)
        /\ IsPrefix(ret.val.str, call.text)
        /\ Len(call.text) > call.maxLength =>
               Len(ret.val.str) \in {call.maxLength, call.maxLength - 1}
        /\ safeTruncate(ret.val.str, call.maxLength) = ret.val.str

\* A text cut between the two halves of a surrogate pair
C26_Witness ==
    /\ Done("safeTruncate")
    /\ call.maxLength = 2
    /\ Len(call.text) = 3
    /\ Len(ret.val.str) = 1
    /\ IsPrefix(ret.val.str, call.text)
    /\ safeTruncate(ret.val.str, call.maxLength) = ret.val.str

====
